---- MODULE Spec2Model ----
(***************************************************************************)
(* Matching and scoring core of the Kenya startup navigator backend:       *)
(* MatchingService (investor / accelerator scorers and rankers) and        *)
(* GroqService._calculate_confidence_score.                                *)
(*                                                                         *)
(* Conventions of the model                                                *)
(*   - A score is an integer number of 1/100000: 1.0 is 100000, 0.3 is     *)
(*     30000.  Python computes with binary floats; the model computes the  *)
(*     same expressions exactly.  Money amounts are powers of two so that  *)
(*     every ratio the scorers form is a whole number of 1/100000.         *)
(*   - Money is counted in thousands of US dollars.                         *)
(*   - Optional[T] is a sequence: None is << >>, a value v is << v >>.     *)
(*   - List fields that the code only tests with "in" and len() are sets.  *)
(*   - Time is counted in half days, so that timedelta.days (which floors  *)
(*     to whole days) is visible.                                          *)
(***************************************************************************)
EXTENDS FiniteSets, Integers, Sequences, TLC

VARIABLES
    now,            \* datetime.now(), in half days
    startup,        \* the StartupProfile of the request
    investors,      \* StartupService.investors   (reference dataset)
    accelerators,   \* StartupService.accelerators (reference dataset)
    calls,          \* the calls made so far, oldest first, with their outcome
    content,        \* the response text handed to the confidence scorer
    tasks,          \* the coroutines started on the one service instance
    clock,          \* time.time(), in seconds
    cache,          \* dependencies.cache, the SimpleCache of AI responses
    rate_limiter    \* dependencies.rate_limiter

vars == << now, startup, investors, accelerators, calls, content, tasks,
           clock, cache, rate_limiter >>

----------------------------------------------------------------------------
(* Helpers                                                                 *)

None == << >>

Some(v) == << v >>

\* Python truthiness of an Optional number: None and 0 are falsy
Truthy(opt) == opt # None /\ opt[1] # 0

Max(a, b) == IF a >= b THEN a ELSE b

Min(a, b) == IF a <= b THEN a ELSE b

SetMin(S) == CHOOSE x \in S : \A y \in S : x <= y

Abs(x) == IF x < 0 THEN -x ELSE x

----------------------------------------------------------------------------
(* Enumerations (schemas.py)                                               *)

StartupStage ==
    {"idea", "mvp", "pre_seed", "seed", "series_a", "series_b", "growth", "mature"}

Industry ==
    {"fintech", "agritech", "healthtech", "edtech", "ecommerce", "logistics",
     "cleantech", "proptech", "blockchain", "ai_ml", "media", "retail", "other"}

Location ==
    {"nairobi", "mombasa", "kisumu", "eldoret", "nakuru", "meru", "nyeri", "other"}

----------------------------------------------------------------------------
(* MatchingService.__init__                                                *)

\* variant: the weights of stage_fit and ticket_size_match exchanged
investor_match_weights_swapped ==
    [industry_alignment    |-> 30,
     stage_fit             |-> 20,
     ticket_size_match     |-> 25,
     geographic_preference |-> 15,
     portfolio_synergy     |-> 10]

\* weights in percent
investor_match_weights ==
    [industry_alignment    |-> 30,
     stage_fit             |-> 25,
     ticket_size_match     |-> 20,
     geographic_preference |-> 15,
     portfolio_synergy     |-> 10]

----------------------------------------------------------------------------
(* MatchingService._calculate_investor_match_score                         *)

industry_score(s, inv) ==
    IF s.industry \in inv.focus_industries THEN 100000
    ELSE IF Cardinality(inv.focus_industries) = 0 THEN 60000
    ELSE 0

stage_order ==
    << "idea", "mvp", "pre_seed", "seed", "series_a", "series_b", "growth", "mature" >>

\* list.index: defined when x is in the list (ValueError otherwise)
StageIndex(x) == CHOOSE i \in 1..Len(stage_order) : stage_order[i] = x

InStageOrder(x) == \E i \in 1..Len(stage_order) : stage_order[i] = x

\* the body of the try block raises ValueError: an unknown stage, or min([])
StageValueError(s, inv) ==
    \/ ~InStageOrder(s.stage)
    \/ \E st \in inv.focus_stages : ~InStageOrder(st)
    \/ inv.focus_stages = {}

\* variant: max() in place of min(), the distance to the farthest focus stage
max_distance(s, inv) ==
    -SetMin({ -Abs(StageIndex(s.stage) - StageIndex(st)) : st \in inv.focus_stages })

min_distance(s, inv) ==
    SetMin({ Abs(StageIndex(s.stage) - StageIndex(st)) : st \in inv.focus_stages })

stage_score(s, inv) ==
    IF s.stage \in inv.focus_stages THEN 100000
    ELSE IF StageValueError(s, inv) THEN 20000
    ELSE Max(0, 100000 - min_distance(s, inv) * 30000)

\* target / ticket_size_min divides by zero
TicketZeroDivision(s, inv) ==
    /\ Truthy(s.funding_amount_target)
    /\ ~(inv.ticket_size_min <= s.funding_amount_target[1]
         /\ s.funding_amount_target[1] <= inv.ticket_size_max)
    /\ s.funding_amount_target[1] < inv.ticket_size_min
    /\ inv.ticket_size_min = 0

\* variant: the partial credit is not clamped at 0
ticket_score_unclamped(s, inv) ==
    IF Truthy(s.funding_amount_target)
    THEN LET target == s.funding_amount_target[1] IN
         IF inv.ticket_size_min <= target /\ target <= inv.ticket_size_max
         THEN 100000
         ELSE IF target < inv.ticket_size_min
         THEN (target * 70000) \div inv.ticket_size_min
         ELSE IF target > inv.ticket_size_max
         THEN (inv.ticket_size_max * 80000) \div target
         ELSE 0
    ELSE 60000

ticket_score(s, inv) ==
    IF Truthy(s.funding_amount_target)
    THEN LET target == s.funding_amount_target[1] IN
         IF inv.ticket_size_min <= target /\ target <= inv.ticket_size_max
         THEN 100000
         ELSE IF target < inv.ticket_size_min
         THEN Max(0, (target * 70000) \div inv.ticket_size_min)
         ELSE IF target > inv.ticket_size_max
         THEN Max(0, (inv.ticket_size_max * 80000) \div target)
         ELSE 0
    ELSE 60000

geo_score(s, inv) ==
    IF s.location \in inv.geographic_focus THEN 100000
    ELSE IF "other" \in inv.geographic_focus THEN 80000
    ELSE 30000

\* variant: the synergy credit is given only while the clock is at its start
synergy_score_by_clock(s, inv) ==
    IF Len(inv.portfolio_companies) # 0
    THEN (IF now = 0 THEN 60000 ELSE 0)
    ELSE 40000

synergy_score(s, inv) ==
    IF Len(inv.portfolio_companies) # 0
    THEN (IF Len(inv.portfolio_companies) > 0 THEN 60000 ELSE 0)
    ELSE 40000

overall_score(ind, stg, tkt, geo, syn) ==
    ( ind * investor_match_weights.industry_alignment
    + stg * investor_match_weights.stage_fit
    + tkt * investor_match_weights.ticket_size_match
    + geo * investor_match_weights.geographic_preference
    + syn * investor_match_weights.portfolio_synergy ) \div 100

\* schemas.MatchScore: every field is declared ge=0, le=1
MatchScoreValid(ms) ==
    /\ 0 <= ms.overall_score         /\ ms.overall_score <= 100000
    /\ 0 <= ms.industry_alignment    /\ ms.industry_alignment <= 100000
    /\ 0 <= ms.stage_fit             /\ ms.stage_fit <= 100000
    /\ 0 <= ms.ticket_size_match     /\ ms.ticket_size_match <= 100000
    /\ 0 <= ms.geographic_preference /\ ms.geographic_preference <= 100000
    /\ 0 <= ms.portfolio_synergy     /\ ms.portfolio_synergy <= 100000

\* the MatchScore the scorer builds, before pydantic validates it
MatchScoreFields(s, inv) ==
    LET ind == industry_score(s, inv)
        stg == stage_score(s, inv)
        tkt == ticket_score(s, inv)
        geo == geo_score(s, inv)
        syn == synergy_score(s, inv)
    IN  [overall_score         |-> overall_score(ind, stg, tkt, geo, syn),
         industry_alignment    |-> ind,
         stage_fit             |-> stg,
         ticket_size_match     |-> tkt,
         geographic_preference |-> geo,
         portfolio_synergy     |-> syn]

\* outcome of a call: the MatchScore, or the exception that leaves the scorer
calculate_investor_match_score(s, inv) ==
    IF TicketZeroDivision(s, inv)
    THEN [raised |-> TRUE, error |-> "ZeroDivisionError"]
    ELSE IF ~MatchScoreValid(MatchScoreFields(s, inv))
    THEN [raised |-> TRUE, error |-> "ValidationError"]
    ELSE [raised |-> FALSE, value |-> MatchScoreFields(s, inv)]

----------------------------------------------------------------------------
(* MatchingService._generate_investor_match_reasoning,                     *)
(* _generate_investor_approach_strategy, _check_warm_intro_possibility     *)
(* The generated sentences are kept as the tags that select them.          *)

investor_reasons(s, inv, ms) ==
    LET r1 == IF ms.industry_alignment >= 80000 THEN << "strong_industry_fit" >>
              ELSE IF ms.industry_alignment >= 50000 THEN << "good_industry_alignment" >>
              ELSE << >>
        r2 == IF ms.stage_fit >= 80000 THEN << "perfect_stage_match" >>
              ELSE IF ms.stage_fit >= 50000 THEN << "good_stage_alignment" >>
              ELSE << >>
        r3 == IF ms.ticket_size_match >= 80000
              THEN (IF Truthy(s.funding_amount_target)
                    THEN << "ticket_size_fits" >>
                    ELSE << "investment_range_aligns" >>)
              ELSE << >>
        r4 == IF ms.geographic_preference >= 80000 THEN << "strong_geographic_focus" >>
              ELSE << >>
        r5 == IF ms.portfolio_synergy >= 60000 /\ Len(inv.portfolio_companies) # 0
              THEN << "portfolio_synergies" >>
              ELSE << >>
        reasons == r1 \o r2 \o r3 \o r4 \o r5
    IN  IF reasons = << >> THEN << "potential_fit" >> ELSE reasons

investor_approach_strategy(s, inv, ms) ==
    IF ms.overall_score >= 80000 THEN "high_priority_target"
    ELSE IF ms.overall_score >= 60000 THEN "strong_potential_match"
    ELSE IF ms.overall_score >= 40000 THEN "worth_exploring"
    ELSE "lower_priority_match"

check_warm_intro_possibility(s, inv) ==
    IF s.location = "nairobi" THEN TRUE
    ELSE IF inv.name \in {"Nairobi Angel Network", "iHub"} THEN TRUE
    ELSE FALSE

----------------------------------------------------------------------------
(* list.sort(key=..., reverse=True) and list slicing                       *)

\* keyed is a sequence of << key, item >>.  Python's sort is stable, also
\* with reverse=True: items with equal keys keep their original order.
SortPosition(keyed, i) ==
    1 + Cardinality({ j \in 1..Len(keyed) : keyed[j][1] > keyed[i][1] })
      + Cardinality({ j \in 1..(i - 1) : keyed[j][1] = keyed[i][1] })

\* variant: reverse=True forgotten, the sort is ascending
sort_ascending(keyed) ==
    [ p \in 1..Len(keyed) |->
        keyed[CHOOSE i \in 1..Len(keyed) :
                1 + Cardinality({ j \in 1..Len(keyed) : keyed[j][1] < keyed[i][1] })
                  + Cardinality({ j \in 1..(i - 1) : keyed[j][1] = keyed[i][1] }) = p][2] ]

\* variant: sorted ascending and then reversed, which reverses the ties too
sort_ascending_reversed(keyed) ==
    [ p \in 1..Len(keyed) |->
        keyed[CHOOSE i \in 1..Len(keyed) :
                1 + Cardinality({ j \in 1..Len(keyed) : keyed[j][1] > keyed[i][1] })
                  + Cardinality({ j \in (i + 1)..Len(keyed) : keyed[j][1] = keyed[i][1] }) = p][2] ]

sort_reverse(keyed) ==
    [ p \in 1..Len(keyed) |->
        keyed[CHOOSE i \in 1..Len(keyed) : SortPosition(keyed, i) = p][2] ]

\* seq[:n]
Slice(seq, n) == SubSeq(seq, 1, Min(n, Len(seq)))

----------------------------------------------------------------------------
(* MatchingService.match_investors                                         *)

\* variant: the threshold itself is included
IncludeInvestorAtThreshold(ms) == ms.overall_score >= 30000

\* line 61: only reasonable matches are included
IncludeInvestor(ms) == ms.overall_score > 30000

InvestorMatch(s, inv) ==
    LET ms == calculate_investor_match_score(s, inv).value IN
    [investor             |-> inv,
     match_score          |-> ms,
     reasoning            |-> investor_reasons(s, inv, ms),
     recommended_approach |-> investor_approach_strategy(s, inv, ms),
     warm_intro_available |-> check_warm_intro_possibility(s, inv)]

\* the list built by the loop of lines 57-77
investor_matches(s, all_investors) ==
    SelectSeq([ i \in 1..Len(all_investors) |-> InvestorMatch(s, all_investors[i]) ],
              LAMBDA m : IncludeInvestor(m.match_score))

\* variant: the list is not cut
AllInvestors(matches) == matches

\* line 82
TopInvestors(matches) == Slice(matches, 10)

\* variant: the list is cut before it is sorted
RankInvestorsCutFirst(matches) ==
    sort_reverse(
        [ i \in 1..Len(TopInvestors(matches)) |->
            << matches[i].match_score.overall_score, matches[i] >> ])

RankInvestors(matches) ==
    TopInvestors(sort_reverse(
        [ i \in 1..Len(matches) |-> << matches[i].match_score.overall_score, matches[i] >> ]))

\* variant: the best match is read from the list before it is returned,
\* which fails when nothing matched
match_investors_reading_best(s, all_investors) ==
    LET failing == { i \in 1..Len(all_investors) :
                       calculate_investor_match_score(s, all_investors[i]).raised }
    IN  IF failing # {}
        THEN [raised |-> TRUE,
              error  |-> calculate_investor_match_score(s, all_investors[SetMin(failing)]).error]
        ELSE IF investor_matches(s, all_investors) = << >>
        THEN [raised |-> TRUE, error |-> "IndexError"]
        ELSE [raised |-> FALSE,
              value  |-> RankInvestors(investor_matches(s, all_investors))]

\* an exception of the scorer leaves match_investors at the first investor
\* that provokes it
match_investors(s, all_investors) ==
    LET failing == { i \in 1..Len(all_investors) :
                       calculate_investor_match_score(s, all_investors[i]).raised }
    IN  IF failing # {}
        THEN [raised |-> TRUE,
              error  |-> calculate_investor_match_score(s, all_investors[SetMin(failing)]).error]
        ELSE [raised |-> FALSE,
              value  |-> RankInvestors(investor_matches(s, all_investors))]

\* variant: line 80 sorts the list get_investors() returned
all_investors_sorted_in_place(s, all_investors) ==
    IF \E i \in 1..Len(all_investors) :
           calculate_investor_match_score(s, all_investors[i]).raised
    THEN all_investors
    ELSE sort_reverse(
           [ i \in 1..Len(all_investors) |->
               << calculate_investor_match_score(s, all_investors[i]).value.overall_score,
                  all_investors[i] >> ])

\* all_investors after the call.  get_investors() returns the list
\* StartupService.investors itself, not a copy; the loop of lines 58-77 reads
\* its entities, appends to the new list `matches`, and lines 80-82 sort and
\* slice `matches`: nothing is assigned to the list or to an entity.
all_investors_after(s, all_investors) == all_investors

----------------------------------------------------------------------------
(* MatchingService._calculate_accelerator_match_score                      *)
(* (the second definition, lines 299-336, is the one Python keeps)         *)

\* (deadline - datetime.now()).days: timedelta.days floors to whole days
DaysUntil(deadline, t) == (deadline - t) \div 2

accelerator_industry(s, acc) ==
    IF s.industry \in acc.focus_industries THEN 35000
    ELSE IF Cardinality(acc.focus_industries) = 0 THEN 25000
    ELSE 0

\* variant: the early-stage credit is given without looking for IDEA among
\* the focus stages
accelerator_stage_any_focus(s, acc) ==
    IF s.stage \in acc.focus_stages THEN 30000
    ELSE IF s.stage \in {"idea", "mvp"} THEN 25000
    ELSE 0

accelerator_stage(s, acc) ==
    IF s.stage \in acc.focus_stages THEN 30000
    ELSE IF "idea" \in acc.focus_stages /\ s.stage \in {"idea", "mvp"} THEN 25000
    ELSE 0

accelerator_location(s, acc) ==
    IF s.location = acc.location THEN 15000
    ELSE IF acc.location = "nairobi" THEN 10000
    ELSE 0

\* variant: a missing deadline is read as a fixed default date
program_timing_default_deadline(acc, t) ==
    LET days_until_deadline ==
            DaysUntil(IF acc.application_deadline # None
                      THEN acc.application_deadline[1] ELSE 400, t)
    IN  IF 30 <= days_until_deadline /\ days_until_deadline <= 180 THEN 20000
        ELSE IF days_until_deadline > 0 THEN 10000
        ELSE 0

\* lines 326-334, with t the value of datetime.now()
program_timing(acc, t) ==
    IF acc.application_deadline # None
    THEN LET days_until_deadline == DaysUntil(acc.application_deadline[1], t) IN
         IF 30 <= days_until_deadline /\ days_until_deadline <= 180 THEN 20000
         ELSE IF days_until_deadline > 0 THEN 10000
         ELSE 0
    ELSE 15000

calculate_accelerator_match_score(s, acc) ==
    Min(accelerator_industry(s, acc) + accelerator_stage(s, acc)
          + accelerator_location(s, acc) + program_timing(acc, now),
        100000)

----------------------------------------------------------------------------
(* MatchingService._generate_accelerator_reasoning, _get_application_status,*)
(* _get_accelerator_prep_advice                                            *)

accelerator_reasons(s, acc, score) ==
    LET r1 == IF s.industry \in acc.focus_industries THEN << "strong_focus" >> ELSE << >>
        r2 == IF s.stage \in acc.focus_stages THEN << "perfect_fit_for_stage" >> ELSE << >>
        r3 == IF s.location = acc.location THEN << "located_for_easy_access" >> ELSE << >>
        r4 == IF Truthy(acc.investment_amount) THEN << "provides_investment" >> ELSE << >>
        r5 == IF Truthy(acc.program_duration_weeks) THEN << "structured_program" >> ELSE << >>
        reasons == r1 \o r2 \o r3 \o r4 \o r5
    IN  IF reasons = << >> THEN << "general_startup_support" >> ELSE reasons

\* variant: a deadline that falls within the coming day counts as passed
get_application_status_closed_today(acc) ==
    IF acc.application_deadline # None
    THEN LET days_until == DaysUntil(acc.application_deadline[1], now) IN
         IF days_until <= 0 THEN [text |-> "applications_closed", days |-> None]
         ELSE IF days_until <= 30 THEN [text |-> "close_in_days_apply_soon", days |-> Some(days_until)]
         ELSE IF days_until <= 90 THEN [text |-> "open_days_remaining", days |-> Some(days_until)]
         ELSE [text |-> "early_open_days_until_deadline", days |-> Some(days_until)]
    ELSE [text |-> "rolling_applications", days |-> None]

\* the status sentence and the day count it prints (none: << >>)
get_application_status(acc) ==
    IF acc.application_deadline # None
    THEN LET days_until == DaysUntil(acc.application_deadline[1], now) IN
         IF days_until < 0 THEN [text |-> "applications_closed", days |-> None]
         ELSE IF days_until <= 30 THEN [text |-> "close_in_days_apply_soon", days |-> Some(days_until)]
         ELSE IF days_until <= 90 THEN [text |-> "open_days_remaining", days |-> Some(days_until)]
         ELSE [text |-> "early_open_days_until_deadline", days |-> Some(days_until)]
    ELSE [text |-> "rolling_applications", days |-> None]

get_accelerator_prep_advice(s, acc) ==
    IF acc.name = "MEST Africa"
    THEN << "rigorous_technical_assessment", "commitment_to_12_month_program", "potential_for_scale" >>
    ELSE IF acc.name = "Antler Kenya"
    THEN << "open_to_cofounder_matching", "intensive_10_week_program", "global_scalability" >>
    ELSE IF acc.name = "iHub"
    THEN << "connection_to_kenyan_market", "early_traction_or_validation", "community_focused_approach" >>
    ELSE << "compelling_pitch_deck", "market_validation", "team_commitment" >>

----------------------------------------------------------------------------
(* MatchingService.match_accelerators                                      *)

\* line 275: only reasonable matches are included
IncludeAccelerator(score) == score > 30000

AcceleratorMatch(s, acc) ==
    LET score == calculate_accelerator_match_score(s, acc) IN
    [accelerator             |-> acc,
     match_score             |-> score,
     reasoning               |-> accelerator_reasons(s, acc, score),
     application_status      |-> get_application_status(acc),
     recommended_preparation |-> get_accelerator_prep_advice(s, acc)]

\* the list built by the loop of lines 271-283
accelerator_matches(s, all_accelerators) ==
    SelectSeq([ i \in 1..Len(all_accelerators) |-> AcceleratorMatch(s, all_accelerators[i]) ],
              LAMBDA m : IncludeAccelerator(m.match_score))

\* line 288
TopAccelerators(matches) == Slice(matches, 5)

RankAccelerators(matches) ==
    TopAccelerators(sort_reverse(
        [ i \in 1..Len(matches) |-> << matches[i].match_score, matches[i] >> ]))

match_accelerators(s, all_accelerators) ==
    [raised |-> FALSE,
     value  |-> RankAccelerators(accelerator_matches(s, all_accelerators))]

\* all_accelerators after the call: lines 272-288 read the list
\* StartupService.accelerators and sort and slice the new list `matches`
all_accelerators_after(s, all_accelerators) == all_accelerators

----------------------------------------------------------------------------
(* MatchingService.find_relevant_resources, _get_generic_resources         *)
(* A dict-shaped profile is the record of the fields the schema checks     *)
(* here: the three enumerations, team_size (ge=1) and the funding target.  *)

\* StartupProfile(**startup_profile) raises (pydantic ValidationError)
ProfileParseFails(d) ==
    \/ d.industry \notin Industry
    \/ d.stage \notin StartupStage
    \/ d.location \notin Location
    \/ d.team_size < 1

ParsedProfile(d) ==
    [industry |-> d.industry, stage |-> d.stage, location |-> d.location,
     funding_amount_target |-> d.funding_amount_target]

get_generic_resources ==
    << [type |-> "accelerator", name |-> "iHub", match_score |-> 80000],
       [type |-> "investor", name |-> "Nairobi Angel Network", match_score |-> 70000] >>

InvestorResources(ms) ==
    [ i \in 1..Len(Slice(ms, 3)) |->
        [type |-> "investor", name |-> ms[i].investor.name,
         match_score |-> ms[i].match_score.overall_score] ]

AcceleratorResources(ms) ==
    [ i \in 1..Len(Slice(ms, 2)) |->
        [type |-> "accelerator", name |-> ms[i].accelerator.name,
         match_score |-> ms[i].match_score] ]

\* the resources for a profile that parsed; `matching` lists the rankers run
ResourcesFor(profile, all_investors, all_accelerators) ==
    LET im == match_investors(profile, all_investors)
        am == match_accelerators(profile, all_accelerators)
    IN  IF im.raised
        THEN [raised |-> TRUE, error |-> im.error, matching |-> {"match_investors"}]
        ELSE [raised   |-> FALSE,
              value    |-> InvestorResources(im.value) \o AcceleratorResources(am.value),
              matching |-> {"match_investors", "match_accelerators"}]

\* variant: the except branch only logs, and the matching goes on with the
\* fields of the dict
find_relevant_resources_unguarded(input, all_investors, all_accelerators) ==
    IF input.is_dict /\ ProfileParseFails(input.data)
    THEN [raised |-> TRUE, error |-> "AttributeError", matching |-> {"match_investors"}]
    ELSE ResourcesFor(ParsedProfile(input.data), all_investors, all_accelerators)

find_relevant_resources(input, all_investors, all_accelerators) ==
    IF input.is_dict /\ ProfileParseFails(input.data)
    THEN [raised |-> FALSE, value |-> get_generic_resources, matching |-> {}]
    ELSE ResourcesFor(ParsedProfile(input.data), all_investors, all_accelerators)

----------------------------------------------------------------------------
(* GroqService._calculate_confidence_score                                 *)
(* A text is the record of what the scorer reads from it: its length, the  *)
(* vocabulary terms, markers and action words that occur in it (after      *)
(* lower-casing where the code lower-cases), and whether it holds a digit, *)
(* an "@" or "http"; and how often its markers are repeated, which the     *)
(* scorer does not read.                                                   *)

kenya_terms ==
    << "kenya", "kenyan", "nairobi", "mombasa", "kra", "cbk", "ihub",
       "tlcom", "novastar", "mest", "antler", "shilling", "east africa",
       "kiico", "ecitizen", "kipi" >>

structure_indicators == << "##", "**", "###", "- ", "1.", "2.", "3." >>

action_words == << "next steps", "action", "recommend", "should", "can", "contact", "apply" >>

\* the empty text
NoContent ==
    [length |-> 0, terms |-> {}, markers |-> {}, repeats |-> 0, actions |-> {},
     has_digit |-> FALSE, has_at |-> FALSE, has_http |-> FALSE]

\* sum(1 for x in words if x in content)
CountPresent(words, present) ==
    Cardinality({ i \in 1..Len(words) : words[i] \in present })

\* min(n / per, 1.0) * weight, weight in 1/100000
CappedShare(n, per, weight) == Min((n * weight) \div per, weight)

length_score(c) == CappedShare(c.length, 1200, 25000)

kenya_score(c) == CappedShare(CountPresent(kenya_terms, c.terms), 6, 30000)

structure_score(c) == CappedShare(CountPresent(structure_indicators, c.markers), 8, 20000)

action_score(c) == CappedShare(CountPresent(action_words, c.actions), 5, 15000)

specificity_score(c) ==
    (IF c.has_digit THEN 5000 ELSE 0) + (IF c.has_at \/ c.has_http THEN 5000 ELSE 0)

\* variant: the empty text gets the confidence of the error fallback
confidence_score_fallback_floor(c, question) ==
    IF c.length = 0 THEN 10000
    ELSE Min(length_score(c) + kenya_score(c) + structure_score(c)
               + action_score(c) + specificity_score(c),
             100000)

calculate_confidence_score(c, question) ==
    IF c.length = 0 THEN 0
    ELSE Min(length_score(c) + kenya_score(c) + structure_score(c)
               + action_score(c) + specificity_score(c),
             100000)

----------------------------------------------------------------------------
(* dependencies.SimpleCache                                                *)
(* A dict is a function; a key that is absent is outside its DOMAIN.       *)

\* settings.AI_RESPONSE_CACHE_TTL, the default_ttl of the global cache
AI_RESPONSE_CACHE_TTL == 3600

\* SimpleCache(default_ttl)
SimpleCache(default_ttl) ==
    [cache |-> << >>, timestamps |-> << >>, default_ttl |-> default_ttl]

Without(f, key) == [ x \in DOMAIN f \ {key} |-> f[x] ]

With(f, key, v) == [ x \in DOMAIN f \cup {key} |-> IF x = key THEN v ELSE f[x] ]

CacheExpired(c, key, t) == t - c.timestamps[key] > c.default_ttl

\* SimpleCache.get: the value returned (None when absent or expired)
cache_get(c, key, t) ==
    IF key \notin DOMAIN c.cache THEN None
    ELSE IF CacheExpired(c, key, t) THEN None
    ELSE Some(c.cache[key])

\* SimpleCache.get: the cache it leaves (an expired entry is deleted)
cache_after_get(c, key, t) ==
    IF key \in DOMAIN c.cache /\ CacheExpired(c, key, t)
    THEN [c EXCEPT !.cache = Without(c.cache, key),
                   !.timestamps = Without(c.timestamps, key)]
    ELSE c

\* SimpleCache.set: the ttl argument is not read
cache_set(c, key, value, ttl, t) ==
    [c EXCEPT !.cache = With(c.cache, key, value),
              !.timestamps = With(c.timestamps, key, t)]

----------------------------------------------------------------------------
(* dependencies.RateLimiter                                                *)

RateLimiter == [requests |-> << >>, blocked_ips |-> << >>]

\* settings.RATE_LIMIT_PER_MINUTE is read from the environment (60 when
\* unset); the model runs the limiter at a small setting
RATE_LIMIT_PER_MINUTE == 2

\* while user_requests and user_requests[0] < current_time - window: popleft()
RECURSIVE CleanOld(_, _)
CleanOld(user_requests, horizon) ==
    IF user_requests # << >> /\ user_requests[1] < horizon
    THEN CleanOld(Tail(user_requests), horizon)
    ELSE user_requests

\* lines 38-43: a block that has run out is removed
ExpireBlock(rl, identifier, t) ==
    IF identifier \in DOMAIN rl.blocked_ips /\ ~(t < rl.blocked_ips[identifier])
    THEN [rl EXCEPT !.blocked_ips = Without(rl.blocked_ips, identifier)]
    ELSE rl

\* self.requests[identifier] of a defaultdict(deque)
UserRequests(rl, identifier) ==
    IF identifier \in DOMAIN rl.requests THEN rl.requests[identifier] ELSE << >>

\* variant: the limit is compared with > in place of >=
is_allowed_one_more(rl, identifier, limit, window, t) ==
    IF identifier \in DOMAIN rl.blocked_ips /\ t < rl.blocked_ips[identifier]
    THEN [allowed |-> FALSE, limiter |-> rl]
    ELSE LET open == ExpireBlock(rl, identifier, t)
             user_requests == CleanOld(UserRequests(rl, identifier), t - window)
         IN  IF Len(user_requests) > limit
             THEN [allowed |-> FALSE,
                   limiter |-> [open EXCEPT
                                  !.requests = With(open.requests, identifier, user_requests),
                                  !.blocked_ips = With(open.blocked_ips, identifier, t + 300)]]
             ELSE [allowed |-> TRUE,
                   limiter |-> [open EXCEPT
                                  !.requests = With(open.requests, identifier,
                                                    Append(user_requests, t))]]

\* RateLimiter.is_allowed at current_time t: the answer and the limiter it leaves
is_allowed(rl, identifier, limit, window, t) ==
    IF identifier \in DOMAIN rl.blocked_ips /\ t < rl.blocked_ips[identifier]
    THEN [allowed |-> FALSE, limiter |-> rl]
    ELSE LET open == ExpireBlock(rl, identifier, t)
             user_requests == CleanOld(UserRequests(rl, identifier), t - window)
         IN  IF Len(user_requests) >= limit
             THEN [allowed |-> FALSE,
                   limiter |-> [open EXCEPT
                                  !.requests = With(open.requests, identifier, user_requests),
                                  !.blocked_ips = With(open.blocked_ips, identifier, t + 300)]]
             ELSE [allowed |-> TRUE,
                   limiter |-> [open EXCEPT
                                  !.requests = With(open.requests, identifier,
                                                    Append(user_requests, t))]]

\* validate_query_rate_limit: the identifier is the first address of
\* X-Forwarded-For when the header is there, else the peer address
ClientIp(request) ==
    IF request.forwarded_for # << >> THEN request.forwarded_for[1] ELSE request.host

validate_query_rate_limit(rl, request, t) ==
    LET answer == is_allowed(rl, ClientIp(request), RATE_LIMIT_PER_MINUTE, 60, t) IN
    [outcome |-> IF answer.allowed
                 THEN [raised |-> FALSE, value |-> TRUE]
                 ELSE [raised |-> TRUE, error |-> "HTTPException",
                       status_code |-> 429, retry_after |-> 60],
     limiter |-> answer.limiter]

\* the module-level instances `cache` and `rate_limiter`, and the clock
ServicesAtStart ==
    /\ clock = 0
    /\ cache = SimpleCache(AI_RESPONSE_CACHE_TTL)
    /\ rate_limiter = RateLimiter

----------------------------------------------------------------------------
(* GroqService.process_startup_query and what it calls                     *)
(* A question is the sequence of its pieces: letters, blanks, and the      *)
(* substrings sanitize_input looks for, each taken as one piece.           *)

\* settings.GROQ_MODEL with nothing set in the environment
GROQ_MODEL == "llama3-70b-8192"

\* " ".join(text.split()): runs of blanks become one blank, none at the ends
RECURSIVE Squeeze(_)
Squeeze(text) ==
    IF Len(text) < 2 THEN text
    ELSE IF text[1] = " " /\ text[2] = " " THEN Squeeze(Tail(text))
    ELSE << text[1] >> \o Squeeze(Tail(text))

RECURSIVE lstrip(_)
lstrip(text) ==
    IF text # << >> /\ text[1] = " " THEN lstrip(Tail(text)) ELSE text

RECURSIVE rstrip(_)
rstrip(text) ==
    IF text # << >> /\ text[Len(text)] = " "
    THEN rstrip(SubSeq(text, 1, Len(text) - 1))
    ELSE text

strip(text) == lstrip(rstrip(text))

\* str.lower, piece by piece
lower(text) ==
    [i \in 1..Len(text) |->
        CASE text[i] = "A" -> "a"
          [] text[i] = "B" -> "b"
          [] OTHER -> text[i]]

\* the two replace calls on script tags
EscapeScript(text) ==
    [i \in 1..Len(text) |->
        CASE text[i] = "<script" -> "&lt;script"
          [] text[i] = "</script>" -> "&lt;/script&gt;"
          [] OTHER -> text[i]]

harmful_patterns == {"javascript:", "data:", "vbscript:"}

IsHarmless(piece) == piece \notin harmful_patterns

sanitize_input(text) ==
    IF text = << >> THEN << >>
    ELSE strip(SelectSeq(EscapeScript(strip(Squeeze(text))), IsHarmless))

\* "if startup_profile": None and the empty dict are both falsy
ProfileGiven(startup_profile) ==
    startup_profile # None /\ DOMAIN startup_profile[1] # {}

\* startup_profile.get(field) if startup_profile else None
ProfileField(startup_profile, field) ==
    IF ProfileGiven(startup_profile) /\ field \in DOMAIN startup_profile[1]
    THEN Some(startup_profile[1][field])
    ELSE None

\* variant: the location of the profile is part of the key
generate_cache_key_with_location(question, startup_profile) ==
    << strip(lower(question)),
       ProfileField(startup_profile, "industry"),
       ProfileField(startup_profile, "stage"),
       GROQ_MODEL,
       ProfileField(startup_profile, "location") >>

\* _generate_cache_key: the md5 digest of the JSON text of the four fields
\* stands for the fields themselves (distinct fields, distinct digests)
generate_cache_key(question, startup_profile) ==
    << strip(lower(question)),
       ProfileField(startup_profile, "industry"),
       ProfileField(startup_profile, "stage"),
       GROQ_MODEL >>

\* the body of a response without a completion in it
NoBody == [choices |-> "none", content |-> NoContent]

max_retries == 3

RECURSIVE Pow2(_)
Pow2(n) == IF n = 0 THEN 1 ELSE 2 * Pow2(n - 1)

\* variant: a status other than 200, 429 and 401 is retried as well
attempt_step_retry_any_status(reply, attempt) ==
    CASE reply.kind = "response" /\ reply.status_code = 200 ->
           [do |-> "return", error |-> ""]
      [] reply.kind = "response" /\ reply.status_code = 429 ->
           [do |-> "sleep", error |-> ""]
      [] reply.kind = "response" /\ reply.status_code = 401 ->
           [do |-> "raise", error |-> "Invalid Groq API key"]
      [] reply.kind = "response" /\ reply.status_code \notin {200, 429, 401} ->
           [do |-> "sleep", error |-> ""]
      [] reply.kind = "TimeoutException" ->
           IF attempt = max_retries - 1
           THEN [do |-> "raise", error |-> "Groq API request timed out after multiple attempts"]
           ELSE [do |-> "sleep", error |-> ""]
      [] reply.kind = "HTTPStatusError" ->
           IF attempt = max_retries - 1
           THEN [do |-> "raise", error |-> "Groq API request failed"]
           ELSE [do |-> "sleep", error |-> ""]
      [] OTHER -> [do |-> "raise", error |-> reply.kind]

\* one pass of the retry loop: what the loop body does with the reply to
\* its post; an exception the loop does not catch leaves the function
attempt_step(reply, attempt) ==
    CASE reply.kind = "response" /\ reply.status_code = 200 ->
           [do |-> "return", error |-> ""]
      [] reply.kind = "response" /\ reply.status_code = 429 ->
           [do |-> "sleep", error |-> ""]
      [] reply.kind = "response" /\ reply.status_code = 401 ->
           [do |-> "raise", error |-> "Invalid Groq API key"]
      [] reply.kind = "response" /\ reply.status_code \notin {200, 429, 401} ->
           [do |-> "raise", error |-> "Groq API error"]
      [] reply.kind = "TimeoutException" ->
           IF attempt = max_retries - 1
           THEN [do |-> "raise", error |-> "Groq API request timed out after multiple attempts"]
           ELSE [do |-> "sleep", error |-> ""]
      [] reply.kind = "HTTPStatusError" ->
           IF attempt = max_retries - 1
           THEN [do |-> "raise", error |-> "Groq API request failed"]
           ELSE [do |-> "sleep", error |-> ""]
      [] OTHER -> [do |-> "raise", error |-> reply.kind]

\* the loop from pass `attempt` on; replies[i] is what the i-th post meets,
\* waits are the sleeps taken so far
RECURSIVE call_groq_api_from(_, _, _)
call_groq_api_from(replies, attempt, waits) ==
    IF attempt >= max_retries
    THEN [raised |-> TRUE, error |-> "Failed to get response from Groq API after retries",
          value |-> NoBody, attempts |-> attempt, waits |-> waits]
    ELSE LET step == attempt_step(replies[attempt + 1], attempt) IN
         CASE step.do = "return" ->
                [raised |-> FALSE, error |-> "", value |-> replies[attempt + 1].body,
                 attempts |-> attempt + 1, waits |-> waits]
           [] step.do = "sleep" ->
                call_groq_api_from(replies, attempt + 1, Append(waits, Pow2(attempt)))
           [] OTHER ->
                [raised |-> TRUE, error |-> step.error, value |-> NoBody,
                 attempts |-> attempt + 1, waits |-> waits]

call_groq_api(replies) == call_groq_api_from(replies, 0, << >>)

RECURSIVE Sum(_)
Sum(seq) == IF seq = << >> THEN 0 ELSE seq[1] + Sum(Tail(seq))

\* AIResponse; the text of an error response is kept in `error`
AIResponse(c, confidence, error) ==
    [content |-> c, confidence |-> confidence, error |-> error]

\* _process_groq_response: a body whose first choice has no message object
\* makes .get fail, and the handler answers with confidence 0.1
process_groq_response(response, original_question) ==
    CASE response.choices = "completion" ->
           AIResponse(response.content,
                      calculate_confidence_score(response.content, original_question), "")
      [] response.choices = "none" ->
           AIResponse(NoContent, calculate_confidence_score(NoContent, original_question), "")
      [] OTHER -> AIResponse(NoContent, 10000, "Error processing response")

\* the fallback of process_startup_query's handler
FallbackResponse ==
    AIResponse(NoContent, 10000, "I apologize, but I encountered an error processing your question")

\* variant: a confidence of exactly 0.7 is cached too
CacheableFrom(ai_response) == ai_response.confidence >= 70000

\* if ai_response.confidence > 0.7
Cacheable(ai_response) == ai_response.confidence > 70000

----------------------------------------------------------------------------
(* Inputs                                                                  *)

\* largest datasets explored (the rankers cut at 10 and at 5)
MaxInvestors == 11

MaxAccelerators == 6

\* number of calls followed in one behaviour of SpecPure
MaxCalls == 2

\* instants of the clock, and application deadlines, in half days
NowValues == {0, 41, 341, 399, 401}

DeadlineValues == {None, Some(60), Some(160), Some(360), Some(400)}

TargetValues ==
    {None, Some(-250), Some(0), Some(125), Some(250), Some(2000), Some(4000)}

Profiles ==
    [industry : {"fintech", "agritech"},
     stage : StartupStage,
     location : {"nairobi", "mombasa"},
     funding_amount_target : TargetValues]

TicketRanges == { << 0, 250 >>, << 500, 15000 >>, << 500, 250 >> }

InvestorUniverse ==
    { [name |-> "Investor",
       focus_industries |-> fi,
       focus_stages |-> fs,
       ticket_size_min |-> tr[1],
       ticket_size_max |-> tr[2],
       geographic_focus |-> gf,
       portfolio_companies |-> pc] :
      fi \in {{}, {"fintech", "healthtech"}},
      fs \in {{}, {"seed", "series_a"}, {"idea"}},
      tr \in TicketRanges,
      gf \in {{"nairobi"}, {"kisumu", "other"}, {"kisumu"}},
      pc \in {<< >>, << "Twiga Foods", "Sendy", "uLesson" >>} }

AcceleratorUniverse ==
    { [name |-> nm,
       location |-> loc,
       focus_industries |-> fi,
       focus_stages |-> fs,
       application_deadline |-> dl,
       investment_amount |-> pr[1],
       program_duration_weeks |-> pr[2]] :
      nm \in {"iHub", "Nairobi Garage"},
      loc \in {"nairobi", "mombasa"},
      fi \in {{}, {"fintech", "edtech"}},
      fs \in {{}, {"idea"}, {"seed"}},
      dl \in DeadlineValues,
      pr \in { << None, None >>, << Some(25), Some(12) >> } }

\* StartupService._load_kenya_investors
KenyaInvestors ==
    << [name |-> "TLcom Capital",
        focus_industries |-> {"fintech", "healthtech", "logistics"},
        focus_stages |-> {"seed", "series_a", "series_b"},
        ticket_size_min |-> 500, ticket_size_max |-> 15000,
        geographic_focus |-> {"nairobi", "other"},
        portfolio_companies |-> << "Twiga Foods", "Sendy", "uLesson", "Gro Intelligence" >>],
       [name |-> "Novastar Ventures",
        focus_industries |-> {"fintech", "agritech", "healthtech"},
        focus_stages |-> {"seed", "series_a"},
        ticket_size_min |-> 250, ticket_size_max |-> 5000,
        geographic_focus |-> {"nairobi", "other"},
        portfolio_companies |-> << "Tala", "Apollo Agriculture", "Shortlist", "Kopo Kopo" >>],
       [name |-> "GreenTec Capital",
        focus_industries |-> {"cleantech", "agritech", "fintech"},
        focus_stages |-> {"pre_seed", "seed"},
        ticket_size_min |-> 50, ticket_size_max |-> 2000,
        geographic_focus |-> {"nairobi", "other"},
        portfolio_companies |-> << "M-KOPA", "PayGo Energy", "Solar Freeze" >>],
       [name |-> "4DX Ventures",
        focus_industries |-> {"fintech", "edtech", "ecommerce"},
        focus_stages |-> {"idea", "mvp", "pre_seed"},
        ticket_size_min |-> 10, ticket_size_max |-> 250,
        geographic_focus |-> {"nairobi"},
        portfolio_companies |-> << "Sendy", "Lynk", "Kune Food" >>] >>

\* StartupService._load_kenya_accelerators; the deadline of MEST Africa,
\* datetime(2024, 12, 31), is instant 400 of the model's clock
KenyaAccelerators ==
    << [name |-> "iHub", location |-> "nairobi",
        focus_industries |-> {"fintech", "healthtech", "edtech"},
        focus_stages |-> {"idea", "mvp", "pre_seed"},
        application_deadline |-> None,
        investment_amount |-> Some(25), program_duration_weeks |-> Some(12)],
       [name |-> "MEST Africa", location |-> "nairobi",
        focus_industries |-> {"fintech", "edtech", "healthtech"},
        focus_stages |-> {"idea", "mvp"},
        application_deadline |-> Some(400),
        investment_amount |-> Some(50), program_duration_weeks |-> Some(52)],
       [name |-> "Antler Kenya", location |-> "nairobi",
        focus_industries |-> {"fintech", "logistics", "healthtech"},
        focus_stages |-> {"idea", "mvp"},
        application_deadline |-> None,
        investment_amount |-> Some(100), program_duration_weeks |-> Some(10)] >>

----------------------------------------------------------------------------
(* Calls.  Every call is appended to the log with the instant it was made  *)
(* at and its outcome.                                                     *)

ScoreInvestor(limit) ==
    /\ Len(calls) < limit
    /\ \E i \in 1..Len(investors) :
         calls' = Append(calls,
                    [op      |-> "calculate_investor_match_score",
                     at      |-> now,
                     entity  |-> i,
                     outcome |-> calculate_investor_match_score(startup, investors[i])])
    /\ UNCHANGED << now, startup, investors, accelerators, content, tasks,
                 clock, cache, rate_limiter >>

ScoreAccelerator(limit) ==
    /\ Len(calls) < limit
    /\ \E i \in 1..Len(accelerators) :
         calls' = Append(calls,
                    [op      |-> "calculate_accelerator_match_score",
                     at      |-> now,
                     entity  |-> i,
                     outcome |-> [raised |-> FALSE,
                                  value  |-> calculate_accelerator_match_score(startup, accelerators[i])]])
    /\ UNCHANGED << now, startup, investors, accelerators, content, tasks,
                 clock, cache, rate_limiter >>

GetApplicationStatus(limit) ==
    /\ Len(calls) < limit
    /\ \E i \in 1..Len(accelerators) :
         calls' = Append(calls,
                    [op      |-> "get_application_status",
                     at      |-> now,
                     entity  |-> i,
                     outcome |-> [raised |-> FALSE,
                                  value  |-> get_application_status(accelerators[i])]])
    /\ UNCHANGED << now, startup, investors, accelerators, content, tasks,
                 clock, cache, rate_limiter >>

\* get_investors() without filters returns StartupService.investors
MatchInvestors(limit) ==
    /\ Len(calls) < limit
    /\ calls' = Append(calls,
                  [op      |-> "match_investors",
                   at      |-> now,
                   outcome |-> match_investors(startup, investors)])
    /\ investors' = all_investors_after(startup, investors)
    /\ UNCHANGED << now, startup, accelerators, content, tasks,
                 clock, cache, rate_limiter >>

MatchAccelerators(limit) ==
    /\ Len(calls) < limit
    /\ calls' = Append(calls,
                  [op      |-> "match_accelerators",
                   at      |-> now,
                   outcome |-> match_accelerators(startup, accelerators)])
    /\ accelerators' = all_accelerators_after(startup, accelerators)
    /\ UNCHANGED << now, startup, investors, content, tasks,
                 clock, cache, rate_limiter >>

\* the wall clock moves on
Tick ==
    /\ \E t \in NowValues : t > now /\ now' = t
    /\ UNCHANGED << startup, investors, accelerators, calls, content, tasks,
                 clock, cache, rate_limiter >>

----------------------------------------------------------------------------
(* Spec: the two scorers, one call on one profile and one entity           *)

InitScore ==
    /\ startup \in Profiles
    /\ \/ /\ \E inv \in InvestorUniverse : investors = << inv >>
          /\ accelerators = << >>
          /\ now = 0
       \/ /\ \E acc \in AcceleratorUniverse : accelerators = << acc >>
          /\ investors = << >>
          /\ now \in NowValues
          /\ startup.funding_amount_target \in {None, Some(250)}
    /\ calls = << >>
    /\ content = NoContent
    /\ tasks = << >>
    /\ ServicesAtStart

NextScore == ScoreInvestor(1) \/ ScoreAccelerator(1) \/ GetApplicationStatus(1)

Spec == InitScore /\ [][NextScore]_vars

----------------------------------------------------------------------------
(* SpecPure: the reference data the code loads, calls repeated over time   *)

PureProfiles ==
    [industry : {"fintech", "agritech"},
     stage : {"idea", "seed"},
     location : {"nairobi", "mombasa"},
     funding_amount_target : {Some(2000)}]

InitPure ==
    /\ startup \in PureProfiles
    /\ investors = KenyaInvestors
    /\ accelerators = KenyaAccelerators
    /\ now = 0
    /\ calls = << >>
    /\ content = NoContent
    /\ tasks = << >>
    /\ ServicesAtStart

NextPure ==
    \/ ScoreInvestor(MaxCalls)
    \/ ScoreAccelerator(MaxCalls)
    \/ MatchInvestors(MaxCalls)
    \/ MatchAccelerators(MaxCalls)
    \/ Tick

SpecPure == InitPure /\ [][NextPure]_vars

----------------------------------------------------------------------------
(* SpecRank: the rankers over reference datasets of every size up to the   *)
(* bound, one table generalised at a time                                  *)

InvestorPool ==
    { [name |-> "Investor",
       focus_industries |-> {"fintech", "healthtech"},
       focus_stages |-> {"seed", "series_a", "series_b"},
       ticket_size_min |-> 500, ticket_size_max |-> 15000,
       geographic_focus |-> {"nairobi", "other"},
       portfolio_companies |-> << "Twiga Foods", "Sendy" >>],
      [name |-> "Investor",
       focus_industries |-> {"fintech", "edtech"},
       focus_stages |-> {"idea", "mvp", "pre_seed"},
       ticket_size_min |-> 0, ticket_size_max |-> 500,
       geographic_focus |-> {"nairobi"},
       portfolio_companies |-> << >>] }

AcceleratorPool ==
    { [name |-> "Accelerator", location |-> "nairobi",
       focus_industries |-> {"fintech", "edtech"},
       focus_stages |-> {"idea", "mvp"},
       application_deadline |-> Some(400),
       investment_amount |-> Some(50), program_duration_weeks |-> Some(52)],
      [name |-> "Accelerator", location |-> "mombasa",
       focus_industries |-> {},
       focus_stages |-> {"seed"},
       application_deadline |-> None,
       investment_amount |-> None, program_duration_weeks |-> None] }

\* the entities of a dataset carry distinct names
Named(entities) ==
    [ i \in 1..Len(entities) |->
        [entities[i] EXCEPT !.name = entities[i].name \o " " \o ToString(i)] ]

Datasets(pool, n) == UNION { { Named(f) : f \in [1..k -> pool] } : k \in 0..n }

RankProfiles ==
    { [industry |-> "fintech", stage |-> "seed", location |-> "nairobi",
       funding_amount_target |-> Some(2000)],
      [industry |-> "agritech", stage |-> "growth", location |-> "mombasa",
       funding_amount_target |-> Some(2000)],
      [industry |-> "agritech", stage |-> "seed", location |-> "mombasa",
       funding_amount_target |-> Some(2000)],
      [industry |-> "fintech", stage |-> "idea", location |-> "nairobi",
       funding_amount_target |-> Some(-250)] }

InitRank ==
    /\ startup \in RankProfiles
    /\ \/ /\ investors \in Datasets(InvestorPool, MaxInvestors)
          /\ accelerators = KenyaAccelerators
          /\ now = 0
       \/ /\ investors = KenyaInvestors
          /\ accelerators \in Datasets(AcceleratorPool, MaxAccelerators)
          /\ now \in NowValues
    /\ calls = << >>
    /\ content = NoContent
    /\ tasks = << >>
    /\ ServicesAtStart

NextRank == MatchInvestors(1) \/ MatchAccelerators(1)

SpecRank == InitRank /\ [][NextRank]_vars

----------------------------------------------------------------------------
(* SpecConf: the confidence scorer over response texts                     *)

Prefix(words, k) == { words[i] : i \in 1..k }

\* characters needed to write the listed words that are present, one
\* separating character after each
RECURSIVE PresentChars(_, _, _)
PresentChars(words, present, n) ==
    IF n = 0 THEN 0
    ELSE PresentChars(words, present, n - 1)
           + (IF words[n] \in present THEN Len(words[n]) + 1 ELSE 0)

\* the record describes a string that exists
ContentValid(c) ==
    /\ "kenyan" \in c.terms => "kenya" \in c.terms
    /\ "###" \in c.markers => "##" \in c.markers
    /\ c.markers \cap {"1.", "2.", "3."} # {} => c.has_digit
    /\ c.repeats > 0 => c.markers # {}
    /\ PresentChars(kenya_terms, c.terms, Len(kenya_terms))
         + PresentChars(structure_indicators, c.markers, Len(structure_indicators))
         + PresentChars(action_words, c.actions, Len(action_words))
         + c.repeats * 4
         + (IF c.has_digit THEN 2 ELSE 0)
         + (IF c.has_at THEN 2 ELSE 0)
         + (IF c.has_http THEN 5 ELSE 0)
       <= c.length

LengthValues == {0, 6, 600, 1200, 2400}

\* how many times the markers present occur again after their first occurrence
RepeatValues == {0, 7}

Contents ==
    { c \in [length : LengthValues,
             terms : { Prefix(kenya_terms, k) : k \in {0, 3, 6, 16} },
             markers : SUBSET { structure_indicators[i] : i \in 1..Len(structure_indicators) },
             repeats : RepeatValues,
             actions : { Prefix(action_words, k) : k \in {0, 5, 7} },
             has_digit : BOOLEAN,
             has_at : BOOLEAN,
             has_http : BOOLEAN] : ContentValid(c) }

Questions == {"How do I register a company?", ""}

ScoreConfidence(limit) ==
    /\ Len(calls) < limit
    /\ \E q \in Questions :
         calls' = Append(calls,
                    [op       |-> "calculate_confidence_score",
                     at       |-> now,
                     question |-> q,
                     outcome  |-> [raised |-> FALSE,
                                   value  |-> calculate_confidence_score(content, q)]])
    /\ UNCHANGED << now, startup, investors, accelerators, content, tasks,
                 clock, cache, rate_limiter >>

InitConf ==
    /\ content \in Contents
    /\ startup = [industry |-> "fintech", stage |-> "idea", location |-> "nairobi",
                  funding_amount_target |-> None]
    /\ investors = KenyaInvestors
    /\ accelerators = KenyaAccelerators
    /\ now = 0
    /\ calls = << >>
    /\ tasks = << >>
    /\ ServicesAtStart

NextConf == ScoreConfidence(1)

SpecConf == InitConf /\ [][NextConf]_vars

----------------------------------------------------------------------------
(* SpecRes: find_relevant_resources over dict-shaped and parsed profiles   *)

ProfileDicts ==
    [industry : {"fintech", "agritech", "crypto"},
     stage : {"idea", "seed", "unicorn"},
     location : {"nairobi", "mombasa"},
     team_size : {0, 3},
     funding_amount_target : {None, Some(2000)}]

ResourceInputs ==
    [is_dict : BOOLEAN, data : ProfileDicts]
      \ { x \in [is_dict : {FALSE}, data : ProfileDicts] : ProfileParseFails(x.data) }

FindRelevantResources(limit) ==
    /\ Len(calls) < limit
    /\ \E input \in ResourceInputs :
         calls' = Append(calls,
                    [op      |-> "find_relevant_resources",
                     at      |-> now,
                     input   |-> input,
                     outcome |-> find_relevant_resources(input, investors, accelerators)])
    /\ UNCHANGED << now, startup, investors, accelerators, content, tasks,
                 clock, cache, rate_limiter >>

InitRes ==
    /\ startup = [industry |-> "fintech", stage |-> "seed", location |-> "nairobi",
                  funding_amount_target |-> Some(2000)]
    /\ investors = KenyaInvestors
    /\ accelerators = KenyaAccelerators
    /\ now \in NowValues
    /\ calls = << >>
    /\ content = NoContent
    /\ tasks = << >>
    /\ ServicesAtStart

NextRes == FindRelevantResources(1)

SpecRes == InitRes /\ [][NextRes]_vars

----------------------------------------------------------------------------
(* SpecCache: SimpleCache.set and SimpleCache.get as the clock advances    *)

ClockValues == {0, 59, 61, 3599, 3601, 7199, 7201}

\* ttl arguments; None: the argument is left out
TtlValues == {None, Some(60), Some(3600), Some(7200)}

CacheKeys == {"k1", "k2"}

CacheValues == {"v1", "v2"}

CacheSet(limit) ==
    /\ Len(calls) < limit
    /\ \E key \in CacheKeys, value \in CacheValues, ttl \in TtlValues :
         /\ cache' = cache_set(cache, key, value, ttl, clock)
         /\ calls' = Append(calls,
                       [op |-> "cache_set", at |-> clock, key |-> key,
                        value |-> value, ttl |-> ttl,
                        outcome |-> [raised |-> FALSE, value |-> None]])
    /\ UNCHANGED << now, startup, investors, accelerators, content, tasks,
                    clock, rate_limiter >>

CacheGet(limit) ==
    /\ Len(calls) < limit
    /\ \E key \in CacheKeys :
         /\ cache' = cache_after_get(cache, key, clock)
         /\ calls' = Append(calls,
                       [op |-> "cache_get", at |-> clock, key |-> key,
                        value |-> "", ttl |-> None,
                        outcome |-> [raised |-> FALSE,
                                     value  |-> cache_get(cache, key, clock)]])
    /\ UNCHANGED << now, startup, investors, accelerators, content, tasks,
                    clock, rate_limiter >>

\* time.time() moves on
ClockAdvance(values) ==
    /\ \E t \in values : t > clock /\ clock' = t
    /\ UNCHANGED << now, startup, investors, accelerators, calls, content, tasks,
                    cache, rate_limiter >>

InitCache ==
    /\ startup = [industry |-> "fintech", stage |-> "seed", location |-> "nairobi",
                  funding_amount_target |-> Some(2000)]
    /\ investors = KenyaInvestors
    /\ accelerators = KenyaAccelerators
    /\ now = 0
    /\ calls = << >>
    /\ content = NoContent
    /\ tasks = << >>
    /\ ServicesAtStart

NextCache == CacheSet(MaxCalls) \/ CacheGet(MaxCalls) \/ ClockAdvance(ClockValues)

SpecCache == InitCache /\ [][NextCache]_vars

----------------------------------------------------------------------------
(* SpecLimit: the rate limiter under requests of two clients               *)

\* largest number of limiter calls followed in one behaviour
MaxRequests == 5

LimiterClockValues == {0, 1, 60, 61, 300, 360}

Requests ==
    { [host |-> "10.0.0.1", forwarded_for |-> << >>],
      [host |-> "10.0.0.2", forwarded_for |-> << >>],
      [host |-> "10.0.0.2", forwarded_for |-> << "10.0.0.1", "10.0.0.9" >>] }

ValidateQueryRateLimit(limit) ==
    /\ Len(calls) < limit
    /\ \E request \in Requests :
         LET answer == validate_query_rate_limit(rate_limiter, request, clock)
         IN  /\ rate_limiter' = answer.limiter
             /\ calls' = Append(calls,
                           [op |-> "validate_query_rate_limit", at |-> clock,
                            identifier |-> ClientIp(request),
                            outcome |-> answer.outcome])
    /\ UNCHANGED << now, startup, investors, accelerators, content, tasks,
                    clock, cache >>

InitLimit ==
    /\ startup = [industry |-> "fintech", stage |-> "seed", location |-> "nairobi",
                  funding_amount_target |-> Some(2000)]
    /\ investors = KenyaInvestors
    /\ accelerators = KenyaAccelerators
    /\ now = 0
    /\ calls = << >>
    /\ content = NoContent
    /\ tasks = << >>
    /\ ServicesAtStart

NextLimit ==
    \/ ValidateQueryRateLimit(MaxRequests)
    \/ ClockAdvance(LimiterClockValues)

SpecLimit == InitLimit /\ [][NextLimit]_vars

----------------------------------------------------------------------------
(* SpecApi: _call_groq_api against every course the three posts can take   *)

\* texts a completion can carry: confidence 0.75, 0.80 and exactly 0.70
GoodAnswer ==
    [length |-> 1200, terms |-> Prefix(kenya_terms, 6), markers |-> {}, repeats |-> 0,
     actions |-> Prefix(action_words, 5), has_digit |-> TRUE, has_at |-> FALSE,
     has_http |-> FALSE]

OtherGoodAnswer ==
    [length |-> 2400, terms |-> Prefix(kenya_terms, 6), markers |-> {}, repeats |-> 0,
     actions |-> Prefix(action_words, 5), has_digit |-> TRUE, has_at |-> TRUE,
     has_http |-> FALSE]

BorderlineAnswer ==
    [length |-> 1200, terms |-> Prefix(kenya_terms, 6), markers |-> {}, repeats |-> 0,
     actions |-> Prefix(action_words, 5), has_digit |-> FALSE, has_at |-> FALSE,
     has_http |-> FALSE]

Completion(c) == [choices |-> "completion", content |-> c]

\* "choices": [{"message": null}]
NullMessage == [choices |-> "null_message", content |-> NoContent]

Response(status_code, body) ==
    [kind |-> "response", status_code |-> status_code, body |-> body]

\* client.post raised
PostRaised(kind) == [kind |-> kind, status_code |-> 0, body |-> NoBody]

Replies ==
    { Response(200, Completion(GoodAnswer)), Response(200, NullMessage),
      Response(200, NoBody),
      Response(429, NoBody), Response(401, NoBody), Response(500, NoBody),
      PostRaised("TimeoutException"), PostRaised("HTTPStatusError"),
      PostRaised("ConnectError") }

CallGroqApi(limit) ==
    /\ Len(calls) < limit
    /\ \E replies \in [1..max_retries -> Replies] :
         LET answer == call_groq_api(replies) IN
         /\ calls' = Append(calls,
                       [op       |-> "_call_groq_api",
                        at       |-> clock,
                        replies  |-> SubSeq(replies, 1, answer.attempts),
                        waits    |-> answer.waits,
                        outcome  |-> [raised |-> answer.raised, error |-> answer.error,
                                      value |-> answer.value]])
         /\ clock' = clock + Sum(answer.waits)
    /\ UNCHANGED << now, startup, investors, accelerators, content, tasks,
                    cache, rate_limiter >>

InitApi ==
    /\ startup = [industry |-> "fintech", stage |-> "seed", location |-> "nairobi",
                  funding_amount_target |-> Some(2000)]
    /\ investors = KenyaInvestors
    /\ accelerators = KenyaAccelerators
    /\ now = 0
    /\ calls = << >>
    /\ content = NoContent
    /\ tasks = << >>
    /\ ServicesAtStart

NextApi == CallGroqApi(1)

SpecApi == InitApi /\ [][NextApi]_vars

----------------------------------------------------------------------------
(* SpecGroq: process_startup_query coroutines over the shared cache.  A    *)
(* coroutine is suspended only inside _call_groq_api, where it touches     *)
(* neither the cache nor another coroutine, so one step takes it from its  *)
(* start to the first post and one from there to its return.               *)

GroqClockValues == {3600, 3601}

FintechNairobi ==
    Some([industry |-> "fintech", stage |-> "seed", location |-> "nairobi"])

FintechMombasa ==
    Some([industry |-> "fintech", stage |-> "seed", location |-> "mombasa"])

AgritechNairobi ==
    Some([industry |-> "agritech", stage |-> "seed", location |-> "nairobi"])

Queries ==
    { [question |-> << "a", " ", " ", "b" >>, startup_profile |-> FintechNairobi,
       context |-> None],
      [question |-> << " ", "A", " ", "B", " " >>, startup_profile |-> FintechMombasa,
       context |-> Some("we are two founders")],
      [question |-> << "a", " ", "b" >>, startup_profile |-> AgritechNairobi,
       context |-> None],
      [question |-> << " ", "javascript:" >>, startup_profile |-> None,
       context |-> Some("we are two founders")] }

\* courses of the posts of one _call_groq_api call
QueryReplies ==
    { << Response(200, Completion(GoodAnswer)) >>,
      << Response(200, Completion(OtherGoodAnswer)) >>,
      << Response(200, Completion(BorderlineAnswer)) >>,
      << Response(200, NullMessage) >>,
      << Response(401, NoBody) >> }

\* a process_startup_query call that has returned
QueryCall(q, at, began, done_at, key, api_called, ai_response) ==
    [op            |-> "process_startup_query",
     at            |-> at,
     began         |-> began,
     done_at       |-> done_at,
     question      |-> q.question,
     startup_profile |-> q.startup_profile,
     context       |-> q.context,
     key           |-> key,
     api_called    |-> api_called,
     outcome       |-> [raised |-> FALSE, value |-> ai_response]]

RemoveAt(seq, i) == SubSeq(seq, 1, i - 1) \o SubSeq(seq, i + 1, Len(seq))

\* from the call to the first post, or to the return when there is none
BeginProcessStartupQuery(limit) ==
    /\ Len(calls) + Len(tasks) < limit
    /\ \E q \in Queries :
         LET question == sanitize_input(q.question)
             cache_key == generate_cache_key(question, q.startup_profile)
             cached_response == cache_get(cache, cache_key, clock)
         IN  IF question = << >>
             THEN /\ calls' = Append(calls,
                                QueryCall(q, clock, Len(calls), clock, None, FALSE, FallbackResponse))
                  /\ UNCHANGED << tasks, cache >>
             ELSE /\ cache' = cache_after_get(cache, cache_key, clock)
                  /\ IF cached_response # None
                     THEN /\ calls' = Append(calls,
                                        QueryCall(q, clock, Len(calls), clock,
                                                  Some(cache_key), FALSE,
                                                  cached_response[1]))
                          /\ UNCHANGED tasks
                     ELSE /\ tasks' = Append(tasks,
                                        [op |-> "process_startup_query", query |-> q,
                                         question |-> question, cache_key |-> cache_key,
                                         at |-> clock, began |-> Len(calls)])
                          /\ UNCHANGED calls
    /\ UNCHANGED << now, startup, investors, accelerators, content, clock, rate_limiter >>

\* from the first post to the return: the posts and sleeps of
\* _call_groq_api, _process_groq_response, and the write to the cache
ReturnProcessStartupQuery(t) ==
    /\ t \in 1..Len(tasks)
    /\ \E replies \in QueryReplies :
         LET task == tasks[t]
             answer == call_groq_api(replies)
             ai_response == process_groq_response(answer.value, task.question)
         IN  /\ clock' = Max(clock, task.at + Sum(answer.waits))
             /\ IF answer.raised
                THEN /\ calls' = Append(calls,
                                   QueryCall(task.query, task.at, task.began, clock',
                                             Some(task.cache_key), TRUE, FallbackResponse))
                     /\ UNCHANGED cache
                ELSE /\ calls' = Append(calls,
                                   QueryCall(task.query, task.at, task.began, clock',
                                             Some(task.cache_key), TRUE, ai_response))
                     /\ cache' = IF Cacheable(ai_response)
                                 THEN cache_set(cache, task.cache_key, ai_response,
                                                Some(3600), clock')
                                 ELSE cache
             /\ tasks' = RemoveAt(tasks, t)
    /\ UNCHANGED << now, startup, investors, accelerators, content, rate_limiter >>

InitGroq ==
    /\ startup = [industry |-> "fintech", stage |-> "seed", location |-> "nairobi",
                  funding_amount_target |-> Some(2000)]
    /\ investors = KenyaInvestors
    /\ accelerators = KenyaAccelerators
    /\ now = 0
    /\ calls = << >>
    /\ content = NoContent
    /\ tasks = << >>
    /\ ServicesAtStart

NextGroq ==
    \/ BeginProcessStartupQuery(3)
    \/ \E t \in 1..3 : ReturnProcessStartupQuery(t)
    \/ ClockAdvance(GroqClockValues)

SpecGroq == InitGroq /\ [][NextGroq]_vars

----------------------------------------------------------------------------
(* SpecConc: ranking coroutines interleaved on the one MatchingService     *)
(* that routes.py creates.  A coroutine runs from its start to its await,  *)
(* where others may run, and from its await to its return.                 *)

\* largest number of coroutines started in one behaviour
MaxTasks == 3

ConcProfiles ==
    { [industry |-> "fintech", stage |-> "seed", location |-> "nairobi",
       funding_amount_target |-> Some(2000)],
      [industry |-> "agritech", stage |-> "idea", location |-> "mombasa",
       funding_amount_target |-> None],
      [industry |-> "edtech", stage |-> "mvp", location |-> "nairobi",
       funding_amount_target |-> Some(125)] }

\* variant: the request is kept in attributes of the MatchingService, which
\* the coroutine started last has overwritten
FrameOnService(ts, t) == Len(ts)

\* the frame a coroutine reads after its await: startup_profile is its
\* parameter and startup_service its local variable, so the frame is its own
FrameOf(ts, t) == t

NewTask(op, p) ==
    [op              |-> op,
     startup_profile |-> p,
     startup_service |-> [investors |-> investors, accelerators |-> accelerators],
     pc              |-> "await",
     read_from       |-> {},
     order           |-> 0,
     outcome         |-> [raised |-> FALSE, value |-> << >>]]

Finished(ts) == { u \in 1..Len(ts) : ts[u].pc = "done" }

\* lines 50-55: StartupService() loads its own tables, get_investors() is
\* called and awaited
BeginMatchInvestors ==
    /\ Len(tasks) < MaxTasks
    /\ \E p \in ConcProfiles : tasks' = Append(tasks, NewTask("match_investors", p))
    /\ UNCHANGED << now, startup, investors, accelerators, calls, content,
                 clock, cache, rate_limiter >>

\* lines 55-82: get_investors() has returned StartupService.investors; the
\* loop, the sort and the slice run without another await
ResumeMatchInvestors(t) ==
    /\ tasks[t].op = "match_investors"
    /\ tasks[t].pc = "await"
    /\ LET f == FrameOf(tasks, t)
           startup_profile == tasks[f].startup_profile
           all_investors == tasks[f].startup_service.investors
       IN  tasks' = [tasks EXCEPT
                       ![t].pc = "done",
                       ![t].read_from = {f},
                       ![t].order = Cardinality(Finished(tasks)) + 1,
                       ![t].outcome = match_investors(startup_profile, all_investors),
                       ![t].startup_service.investors =
                           all_investors_after(startup_profile, all_investors)]
    /\ UNCHANGED << now, startup, investors, accelerators, calls, content,
                 clock, cache, rate_limiter >>

\* lines 266-269
BeginMatchAccelerators ==
    /\ Len(tasks) < MaxTasks
    /\ \E p \in ConcProfiles : tasks' = Append(tasks, NewTask("match_accelerators", p))
    /\ UNCHANGED << now, startup, investors, accelerators, calls, content,
                 clock, cache, rate_limiter >>

\* lines 269-288
ResumeMatchAccelerators(t) ==
    /\ tasks[t].op = "match_accelerators"
    /\ tasks[t].pc = "await"
    /\ LET f == FrameOf(tasks, t)
           startup_profile == tasks[f].startup_profile
           all_accelerators == tasks[f].startup_service.accelerators
       IN  tasks' = [tasks EXCEPT
                       ![t].pc = "done",
                       ![t].read_from = {f},
                       ![t].order = Cardinality(Finished(tasks)) + 1,
                       ![t].outcome = match_accelerators(startup_profile, all_accelerators),
                       ![t].startup_service.accelerators =
                           all_accelerators_after(startup_profile, all_accelerators)]
    /\ UNCHANGED << now, startup, investors, accelerators, calls, content,
                 clock, cache, rate_limiter >>

InitConc ==
    /\ startup = [industry |-> "fintech", stage |-> "seed", location |-> "nairobi",
                  funding_amount_target |-> Some(2000)]
    /\ investors = KenyaInvestors
    /\ accelerators = KenyaAccelerators
    /\ now \in NowValues
    /\ calls = << >>
    /\ content = NoContent
    /\ tasks = << >>
    /\ ServicesAtStart

NextConc ==
    \/ BeginMatchInvestors
    \/ BeginMatchAccelerators
    \/ \E t \in 1..Len(tasks) : ResumeMatchInvestors(t)
    \/ \E t \in 1..Len(tasks) : ResumeMatchAccelerators(t)

SpecConc == InitConc /\ [][NextConc]_vars

----------------------------------------------------------------------------
(* Properties                                                              *)

InUnitInterval(x) == 0 <= x /\ x <= 100000

CallsOf(op) == { k \in 1..Len(calls) : calls[k].op = op }

Returned(op) == { k \in CallsOf(op) : ~calls[k].outcome.raised }

\* C1: every sub-score and the overall score that
\* _calculate_investor_match_score returns lies in [0,1] (no score it computes
\* is rejected by MatchScore's bounds), and the score that
\* _calculate_accelerator_match_score returns lies in [0,1].
C1_ScoresInUnitInterval ==
    /\ \A k \in CallsOf("calculate_investor_match_score") :
         IF calls[k].outcome.raised
         THEN calls[k].outcome.error # "ValidationError"
         ELSE LET ms == calls[k].outcome.value IN
              /\ InUnitInterval(ms.overall_score)
              /\ InUnitInterval(ms.industry_alignment)
              /\ InUnitInterval(ms.stage_fit)
              /\ InUnitInterval(ms.ticket_size_match)
              /\ InUnitInterval(ms.geographic_preference)
              /\ InUnitInterval(ms.portfolio_synergy)
    /\ \A k \in CallsOf("calculate_accelerator_match_score") :
         InUnitInterval(calls[k].outcome.value)

\* C1 witness: the scorer returned for a negative funding target below the
\* ticket range, where the ratio is negative and the sub-score is clamped to 0
C1_Witness ==
    \E k \in Returned("calculate_investor_match_score") :
        /\ startup.funding_amount_target # None
        /\ startup.funding_amount_target[1] < 0
        /\ investors[calls[k].entity].ticket_size_min > 0
        /\ calls[k].outcome.value.ticket_size_match = 0

\* C2: the overall score returned by _calculate_investor_match_score is
\* 0.30 industry_alignment + 0.25 stage_fit + 0.20 ticket_size_match
\* + 0.15 geographic_preference + 0.10 portfolio_synergy of the sub-scores
\* returned with it, and the five weights sum to 1.0 (100 percent).
C2_WeightedSum ==
    /\ \A k \in Returned("calculate_investor_match_score") :
         LET ms == calls[k].outcome.value IN
         ms.overall_score * 100 =
             30 * ms.industry_alignment + 25 * ms.stage_fit + 20 * ms.ticket_size_match
               + 15 * ms.geographic_preference + 10 * ms.portfolio_synergy
    /\ investor_match_weights.industry_alignment + investor_match_weights.stage_fit
         + investor_match_weights.ticket_size_match
         + investor_match_weights.geographic_preference
         + investor_match_weights.portfolio_synergy = 100

\* C2 witness: a returned MatchScore whose five sub-scores are all different,
\* so that each weight is tied to its own factor
C2_Witness ==
    \E k \in Returned("calculate_investor_match_score") :
        LET ms == calls[k].outcome.value IN
        Cardinality({ms.industry_alignment, ms.stage_fit, ms.ticket_size_match,
                     ms.geographic_preference, ms.portfolio_synergy}) = 5

\* C3: every entry returned by match_investors has overall_score > 0.3 and
\* every entry returned by match_accelerators has match_score > 0.3.
C3_AboveThreshold ==
    /\ \A k \in Returned("match_investors") :
         \A i \in 1..Len(calls[k].outcome.value) :
             calls[k].outcome.value[i].match_score.overall_score > 30000
    /\ \A k \in Returned("match_accelerators") :
         \A i \in 1..Len(calls[k].outcome.value) :
             calls[k].outcome.value[i].match_score > 30000

\* C3 witness: match_investors returned some investors and dropped one that
\* scores exactly 0.3
C3_Witness ==
    \E k \in Returned("match_investors") :
        /\ Len(calls[k].outcome.value) > 0
        /\ \E i \in 1..Len(investors) :
             /\ calculate_investor_match_score(startup, investors[i]).value.overall_score = 30000
             /\ \A j \in 1..Len(calls[k].outcome.value) :
                  calls[k].outcome.value[j].investor # investors[i]

\* C4: the lists returned by match_investors and match_accelerators are
\* sorted non-increasing by overall_score, resp. match_score.
C4_SortedDescending ==
    /\ \A k \in Returned("match_investors") :
         \A i \in 1..(Len(calls[k].outcome.value) - 1) :
             calls[k].outcome.value[i].match_score.overall_score
               >= calls[k].outcome.value[i + 1].match_score.overall_score
    /\ \A k \in Returned("match_accelerators") :
         \A i \in 1..(Len(calls[k].outcome.value) - 1) :
             calls[k].outcome.value[i].match_score
               >= calls[k].outcome.value[i + 1].match_score

\* C4 witness: match_investors returned a list in which an investor that
\* comes later in the dataset stands before one that comes earlier
C4_Witness ==
    \E k \in Returned("match_investors") :
        \E i, j \in 1..Len(calls[k].outcome.value) :
            /\ i < j
            /\ \E a, b \in 1..Len(investors) :
                 /\ a > b
                 /\ investors[a] = calls[k].outcome.value[i].investor
                 /\ investors[b] = calls[k].outcome.value[j].investor

\* C5: match_investors returns at most 10 entries and match_accelerators at
\* most 5, whatever the size of the dataset.
C5_Truncated ==
    /\ \A k \in Returned("match_investors") : Len(calls[k].outcome.value) <= 10
    /\ \A k \in Returned("match_accelerators") : Len(calls[k].outcome.value) <= 5

\* C5 witness: more than 10 investors qualify and exactly 10 are returned
C5_Witness ==
    \E k \in Returned("match_investors") :
        /\ Len(investor_matches(startup, investors)) > 10
        /\ Len(calls[k].outcome.value) = 10

\* C6: moving the funding target further outside the investor's ticket
\* range never increases ticket_size_match: when the scorer returned for a
\* target T1 below (above) the range, no target T2 < T1 (T2 > T1) gets a
\* larger ticket_size_match from the same investor.
C6_TicketMonotone ==
    \A k \in Returned("calculate_investor_match_score") :
        LET inv == investors[calls[k].entity] IN
        startup.funding_amount_target # None =>
            \A opt \in TargetValues \ {None} :
                LET T1 == startup.funding_amount_target[1]
                    T2 == opt[1]
                    further == [startup EXCEPT !.funding_amount_target = opt]
                IN  (\/ T2 < T1 /\ T1 < inv.ticket_size_min
                     \/ T2 > T1 /\ T1 > inv.ticket_size_max)
                    /\ ~TicketZeroDivision(further, inv)
                    => ticket_score(further, inv) <= calls[k].outcome.value.ticket_size_match

SameCall(i, j) ==
    /\ calls[i].op = calls[j].op
    /\ calls[i].op = "calculate_accelerator_match_score" => calls[i].entity = calls[j].entity

AcceleratorCalls == CallsOf("calculate_accelerator_match_score") \cup CallsOf("match_accelerators")

\* the accelerators whose deadline the call reads
DeadlinesRead(k) ==
    IF calls[k].op = "calculate_accelerator_match_score"
    THEN { accelerators[calls[k].entity].application_deadline } \ {None}
    ELSE { accelerators[i].application_deadline : i \in 1..Len(accelerators) } \ {None}

\* C8 as stated: two calls of _calculate_accelerator_match_score, or of
\* match_accelerators, with the same profile and the same accelerators return
\* the same result whatever the wall-clock time of each call.
C8_AcceleratorPureOfClock ==
    \A i, j \in AcceleratorCalls :
        SameCall(i, j) => calls[i].outcome = calls[j].outcome

\* C8 amended: two such calls return the same result when they are made at
\* the same clock reading, or when no accelerator involved has an
\* application_deadline.
C8_AcceleratorPureGivenClock ==
    \A i, j \in AcceleratorCalls :
        SameCall(i, j) /\ (calls[i].at = calls[j].at \/ DeadlinesRead(i) = {})
            => calls[i].outcome = calls[j].outcome

\* C8 witness: the accelerator scorer was called at two different instants
\* on an accelerator with rolling applications
C8_Witness ==
    \E i, j \in CallsOf("calculate_accelerator_match_score") :
        /\ i < j
        /\ calls[i].entity = calls[j].entity
        /\ calls[i].at < calls[j].at
        /\ DeadlinesRead(i) = {}

\* C9: _calculate_confidence_score returns 0.0 for the empty text, whatever
\* the question, and a value in [0,1] for every text.
C9_ConfidenceBound ==
    \A k \in CallsOf("calculate_confidence_score") :
        /\ content.length = 0 => calls[k].outcome.value = 0
        /\ InUnitInterval(calls[k].outcome.value)

\* C9 witness: the scorer was called on the empty text
C9_Witness ==
    \E k \in CallsOf("calculate_confidence_score") :
        content.length = 0 /\ calls[k].question # ""

\* C10: on an empty investor (accelerator) dataset match_investors
\* (match_accelerators) returns the empty list and raises nothing.
C10_EmptyDataset ==
    /\ \A k \in CallsOf("match_investors") :
         investors = << >> =>
             ~calls[k].outcome.raised /\ calls[k].outcome.value = << >>
    /\ \A k \in CallsOf("match_accelerators") :
         accelerators = << >> =>
             ~calls[k].outcome.raised /\ calls[k].outcome.value = << >>

\* C10 witness: match_investors was called on the empty dataset
C10_Witness ==
    \E k \in CallsOf("match_investors") : investors = << >>

\* the profile names a funding target (the field is not None)
TargetSpecified(s) == s.funding_amount_target # None

\* C11: when the profile's industry is in focus_industries, its stage in
\* focus_stages, its specified target T within [ticket_size_min,
\* ticket_size_max] and its location in geographic_focus, the scorer returns
\* 1.0 for the four sub-scores and overall_score = 0.90 + 0.10 *
\* portfolio_synergy: 0.96 with portfolio companies, 0.94 without.
C11_PerfectMatch ==
    \A k \in CallsOf("calculate_investor_match_score") :
        LET inv == investors[calls[k].entity] IN
        ( /\ startup.industry \in inv.focus_industries
          /\ startup.stage \in inv.focus_stages
          /\ TargetSpecified(startup)
          /\ inv.ticket_size_min <= startup.funding_amount_target[1]
          /\ startup.funding_amount_target[1] <= inv.ticket_size_max
          /\ startup.location \in inv.geographic_focus )
        => /\ ~calls[k].outcome.raised
           /\ LET ms == calls[k].outcome.value IN
              /\ ms.industry_alignment = 100000
              /\ ms.stage_fit = 100000
              /\ ms.ticket_size_match = 100000
              /\ ms.geographic_preference = 100000
              /\ ms.overall_score * 10 = 900000 + ms.portfolio_synergy
              /\ ms.overall_score =
                   (IF Len(inv.portfolio_companies) > 0 THEN 96000 ELSE 94000)

\* C12: ticket_size_match is 0.6 when no target is specified, 1.0 for a
\* specified target T inside [ticket_size_min, ticket_size_max],
\* (T / ticket_size_min) * 0.7 for T below the range and
\* (ticket_size_max / T) * 0.8 for T above it (a negative product counts
\* as 0, the lower end of every score); range [50000, 250000] and
\* T = 2,000,000 give 0.1.
C12_TicketFormula ==
    \A k \in Returned("calculate_investor_match_score") :
        LET inv == investors[calls[k].entity]
            tkt == calls[k].outcome.value.ticket_size_match
        IN  IF ~TargetSpecified(startup) THEN tkt = 60000
            ELSE LET T == startup.funding_amount_target[1] IN
                 IF inv.ticket_size_min <= T /\ T <= inv.ticket_size_max
                 THEN tkt = 100000
                 ELSE /\ T < inv.ticket_size_min
                           => IF T < 0 THEN tkt = 0
                              ELSE tkt * inv.ticket_size_min = T * 70000
                      /\ T > inv.ticket_size_max /\ ~(T < inv.ticket_size_min)
                           => tkt * T = inv.ticket_size_max * 80000
                      /\ inv.ticket_size_max = 250 /\ T = 2000 => tkt = 10000

\* the program-timing component of a returned accelerator score: what is
\* left of it after the industry, stage and location components
TimingAdded(k) ==
    LET acc == accelerators[calls[k].entity] IN
    calls[k].outcome.value
      - (accelerator_industry(startup, acc) + accelerator_stage(startup, acc)
           + accelerator_location(startup, acc))

\* C13: the program-timing component is +0.15 when the accelerator has no
\* application_deadline, whatever the other factors; with a deadline it is
\* +0.20 when the days until the deadline are in [30,180], +0.10 when the
\* deadline is in the future but outside that window, and +0 when the
\* deadline has passed.
C13_ProgramTiming ==
    \A k \in CallsOf("calculate_accelerator_match_score") :
        LET acc == accelerators[calls[k].entity] IN
        IF acc.application_deadline = None
        THEN TimingAdded(k) = 15000
        ELSE LET left == acc.application_deadline[1] - calls[k].at
                 days == DaysUntil(acc.application_deadline[1], calls[k].at)
             IN  IF left <= 0 THEN TimingAdded(k) = 0
                 ELSE IF 30 <= days /\ days <= 180 THEN TimingAdded(k) = 20000
                 ELSE TimingAdded(k) = 10000

\* C14: no call of a scorer or of a ranker changes a field of the
\* StartupProfile it is given, nor an entity, the order or the length of the
\* investor and accelerator datasets.
C14_InputsUnchanged ==
    [][ /\ startup' = startup
        /\ investors' = investors
        /\ accelerators' = accelerators ]_vars

\* C14 witness: match_investors has returned a list whose order differs from
\* the order of the dataset it was computed from
C14_Witness ==
    \E k \in Returned("match_investors") :
        /\ Len(calls[k].outcome.value) >= 2
        /\ \E i \in 1..Len(calls[k].outcome.value) :
             calls[k].outcome.value[i].investor # investors[i]

\* what the call of task t returns when it runs alone
RunAlone(t) ==
    IF tasks[t].op = "match_investors"
    THEN match_investors(tasks[t].startup_profile, investors)
    ELSE match_accelerators(tasks[t].startup_profile, accelerators)

\* C15: however match_investors and match_accelerators calls on the one
\* MatchingService interleave at their await points, each call returns the
\* list it returns when run alone, and reads only what it wrote itself.
C15_NoInterference ==
    \A t \in Finished(tasks) :
        /\ tasks[t].outcome = RunAlone(t)
        /\ tasks[t].read_from = {t}

\* C15 witness: two calls of the same operation for different profiles
\* overlapped, the one started later returned first, and their lists differ
C15_Witness ==
    \E t, u \in Finished(tasks) :
        /\ t < u
        /\ tasks[u].order < tasks[t].order
        /\ tasks[t].op = tasks[u].op
        /\ tasks[t].startup_profile # tasks[u].startup_profile
        /\ tasks[t].outcome # tasks[u].outcome

\* the investors (accelerators) of the dataset that qualify, and those among
\* them that the call k returned, as positions in the dataset
InvestorScore(i) ==
    calculate_investor_match_score(startup, investors[i]).value.overall_score

QualifyingInvestors == { i \in 1..Len(investors) : InvestorScore(i) > 30000 }

ReturnedInvestors(k) ==
    { i \in 1..Len(investors) :
        \E j \in 1..Len(calls[k].outcome.value) :
            calls[k].outcome.value[j].investor = investors[i] }

AcceleratorScore(i) == calculate_accelerator_match_score(startup, accelerators[i])

QualifyingAccelerators == { i \in 1..Len(accelerators) : AcceleratorScore(i) > 30000 }

ReturnedAccelerators(k) ==
    { i \in 1..Len(accelerators) :
        \E j \in 1..Len(calls[k].outcome.value) :
            calls[k].outcome.value[j].accelerator = accelerators[i] }

\* C16: match_investors returns every investor with overall_score > 0.3
\* when at most 10 qualify, and otherwise 10 qualifying investors such that
\* no omitted qualifying investor scores strictly higher than a returned
\* one; match_accelerators does the same with limit 5.
C16_BestQualifying ==
    /\ \A k \in Returned("match_investors") :
         /\ ReturnedInvestors(k) \subseteq QualifyingInvestors
         /\ Cardinality(ReturnedInvestors(k)) = Len(calls[k].outcome.value)
         /\ IF Cardinality(QualifyingInvestors) <= 10
            THEN ReturnedInvestors(k) = QualifyingInvestors
            ELSE /\ Len(calls[k].outcome.value) = 10
                 /\ \A a \in QualifyingInvestors \ ReturnedInvestors(k) :
                      \A b \in ReturnedInvestors(k) :
                          InvestorScore(a) <= InvestorScore(b)
    /\ \A k \in Returned("match_accelerators") :
         /\ ReturnedAccelerators(k) \subseteq QualifyingAccelerators
         /\ Cardinality(ReturnedAccelerators(k)) = Len(calls[k].outcome.value)
         /\ IF Cardinality(QualifyingAccelerators) <= 5
            THEN ReturnedAccelerators(k) = QualifyingAccelerators
            ELSE /\ Len(calls[k].outcome.value) = 5
                 /\ \A a \in QualifyingAccelerators \ ReturnedAccelerators(k) :
                      \A b \in ReturnedAccelerators(k) :
                          AcceleratorScore(a) <= AcceleratorScore(b)

\* C16 witness: more than 10 investors qualify and the one left out is not
\* the last of the dataset: it scores less than every investor returned
C16_Witness ==
    \E k \in Returned("match_investors") :
        /\ Cardinality(QualifyingInvestors) > 10
        /\ \E a \in QualifyingInvestors \ ReturnedInvestors(k) :
             /\ a < Len(investors)
             /\ \A b \in ReturnedInvestors(k) : InvestorScore(a) < InvestorScore(b)

\* position in the dataset of the j-th entry of the list call k returned
DatasetPosition(k, j) ==
    CHOOSE i \in 1..Len(investors) : investors[i] = calls[k].outcome.value[j].investor

\* C17: two investors of equal overall_score that match_investors both
\* returns stand in the order of the dataset, and of the investors tied
\* across the top-10 cut the earlier ones of the dataset are kept.
C17_TiesKeepDatasetOrder ==
    \A k \in Returned("match_investors") :
        LET res == calls[k].outcome.value IN
        /\ \A i, j \in 1..Len(res) :
             i < j /\ res[i].match_score.overall_score = res[j].match_score.overall_score
                 => DatasetPosition(k, i) < DatasetPosition(k, j)
        /\ \A a \in QualifyingInvestors \ ReturnedInvestors(k) :
             \A b \in ReturnedInvestors(k) :
                 InvestorScore(a) = InvestorScore(b) => b < a

\* C17 witness: an investor was cut that ties with a returned one, while an
\* investor with a different score was returned from further down the dataset
C17_Witness ==
    \E k \in Returned("match_investors") :
        \E a \in QualifyingInvestors \ ReturnedInvestors(k) :
            /\ \E b \in ReturnedInvestors(k) : InvestorScore(a) = InvestorScore(b)
            /\ \E c \in ReturnedInvestors(k) : c > a /\ InvestorScore(c) # InvestorScore(a)

\* the ladder idea < mvp < pre_seed < seed < series_a < series_b < growth <
\* mature of the claim
LadderRung ==
    [idea |-> 0, mvp |-> 1, pre_seed |-> 2, seed |-> 3,
     series_a |-> 4, series_b |-> 5, growth |-> 6, mature |-> 7]

\* d: least number of rungs between the stage and a focus stage
LadderDistance(stage, focus_stages) ==
    CHOOSE d \in 0..7 :
        /\ \E st \in focus_stages : Abs(LadderRung[stage] - LadderRung[st]) = d
        /\ \A st \in focus_stages : Abs(LadderRung[stage] - LadderRung[st]) >= d

\* C18: stage_fit is 1.0 when the profile's stage is in focus_stages;
\* otherwise, for non-empty focus_stages, it is max(0, 1.0 - 0.3 * d) with d
\* the least ladder distance to a focus stage: 0.7, 0.4, 0.1 for d = 1, 2, 3
\* and 0 for d >= 4.
C18_StageFit ==
    \A k \in Returned("calculate_investor_match_score") :
        LET inv == investors[calls[k].entity]
            stg == calls[k].outcome.value.stage_fit
        IN  IF startup.stage \in inv.focus_stages THEN stg = 100000
            ELSE inv.focus_stages # {} =>
                 LET d == LadderDistance(startup.stage, inv.focus_stages) IN
                 /\ stg = Max(0, 100000 - 30000 * d)
                 /\ d = 1 => stg = 70000
                 /\ d = 2 => stg = 40000
                 /\ d = 3 => stg = 10000
                 /\ d >= 4 => stg = 0

\* C18 witness: the stage is one rung from the nearest focus stage and two
\* from another, and stage_fit is 0.7
C18_Witness ==
    \E k \in Returned("calculate_investor_match_score") :
        LET inv == investors[calls[k].entity] IN
        /\ startup.stage \notin inv.focus_stages
        /\ \E st \in inv.focus_stages : Abs(LadderRung[startup.stage] - LadderRung[st]) = 2
        /\ LadderDistance(startup.stage, inv.focus_stages) = 1
        /\ calls[k].outcome.value.stage_fit = 70000

\* the three components of the claim, for profile s and accelerator acc
ClaimedIndustryPoints(s, acc) ==
    IF s.industry \in acc.focus_industries THEN 35000
    ELSE IF acc.focus_industries = {} THEN 25000
    ELSE 0

ClaimedStagePoints(s, acc) ==
    IF s.stage \in acc.focus_stages THEN 30000
    ELSE IF "idea" \in acc.focus_stages /\ (s.stage = "idea" \/ s.stage = "mvp") THEN 25000
    ELSE 0

ClaimedLocationPoints(s, acc) ==
    IF s.location = acc.location THEN 15000
    ELSE IF acc.location = "nairobi" THEN 10000
    ELSE 0

\* C19: the accelerator score is min(1.0, I + S + L + T): I = 0.35 for an
\* industry in focus_industries, 0.25 for empty focus_industries, else 0;
\* S = 0.30 for a stage in focus_stages, 0.25 when focus_stages holds idea
\* and the stage is idea or mvp, else 0; L = 0.15 for the accelerator's own
\* location, 0.10 when the accelerator is in Nairobi, else 0; T the
\* program-timing component.
C19_AcceleratorScore ==
    \A k \in CallsOf("calculate_accelerator_match_score") :
        LET acc == accelerators[calls[k].entity] IN
        calls[k].outcome.value =
            Min(100000,
                ClaimedIndustryPoints(startup, acc) + ClaimedStagePoints(startup, acc)
                  + ClaimedLocationPoints(startup, acc)
                  + program_timing(acc, calls[k].at))

\* C19 witness: a score made of the second-rank credit of every factor: a
\* generalist accelerator in Nairobi with idea among its focus stages and a
\* deadline, scored for an mvp-stage profile from elsewhere
C19_Witness ==
    \E k \in CallsOf("calculate_accelerator_match_score") :
        LET acc == accelerators[calls[k].entity] IN
        /\ acc.focus_industries = {}
        /\ startup.stage = "mvp" /\ acc.focus_stages = {"idea"}
        /\ startup.location # acc.location /\ acc.location = "nairobi"
        /\ acc.application_deadline # None
        /\ calls[k].outcome.value = 25000 + 25000 + 10000 + 20000

\* C20: for every schema-valid profile and entity the scorers return a
\* score and raise nothing: an absent funding_amount_target or
\* application_deadline, an empty focus list and ticket_size_min = 0 take a
\* branch with a default score.
C20_ScorersNeverRaise ==
    /\ \A k \in CallsOf("calculate_investor_match_score") : ~calls[k].outcome.raised
    /\ \A k \in CallsOf("calculate_accelerator_match_score") : ~calls[k].outcome.raised

\* occurrences of structural markers in the text
MarkerOccurrences(c) == CountPresent(structure_indicators, c.markers) + c.repeats

\* the structural-formatting component of a returned confidence: what is left
\* of it after the other components (their sum stays below the cap of 1.0)
StructureAdded(k) ==
    calls[k].outcome.value
      - (length_score(content) + kenya_score(content) + action_score(content)
           + specificity_score(content))

\* C21: the structural-formatting component of the confidence score is
\* min(count / 8, 1.0) * 0.20 with count the number of occurrences of the
\* structural markers in the text; 8 or more occurrences earn the full 0.20.
C21_StructureComponent ==
    \A k \in CallsOf("calculate_confidence_score") :
        content.length > 0 =>
            /\ StructureAdded(k) = Min((MarkerOccurrences(content) * 20000) \div 8, 20000)
            /\ MarkerOccurrences(content) >= 8 => StructureAdded(k) = 20000

\* C22: _get_application_status returns the rolling-applications sentence
\* exactly when the accelerator has no application_deadline, the
\* applications-closed sentence exactly when the deadline has passed, and
\* otherwise a sentence that carries the whole number N of days until the
\* deadline, in the "close in N days - apply soon" form when N <= 30.
C22_ApplicationStatus ==
    \A k \in CallsOf("get_application_status") :
        LET acc == accelerators[calls[k].entity]
            status == calls[k].outcome.value
        IN  /\ status.text = "rolling_applications" <=> acc.application_deadline = None
            /\ status.text = "applications_closed"
                 <=> (acc.application_deadline # None
                        /\ acc.application_deadline[1] < calls[k].at)
            /\ (acc.application_deadline # None
                   /\ acc.application_deadline[1] >= calls[k].at)
                 => /\ status.days # None
                    /\ 2 * status.days[1] <= acc.application_deadline[1] - calls[k].at
                    /\ acc.application_deadline[1] - calls[k].at < 2 * status.days[1] + 2
                    /\ status.days[1] <= 30 => status.text = "close_in_days_apply_soon"

\* C22 witness: the status was asked half a day before the deadline and
\* carries 0 days in the apply-soon form
C22_Witness ==
    \E k \in CallsOf("get_application_status") :
        LET acc == accelerators[calls[k].entity] IN
        /\ acc.application_deadline # None
        /\ acc.application_deadline[1] - calls[k].at = 1
        /\ calls[k].outcome.value = [text |-> "close_in_days_apply_soon", days |-> Some(0)]

\* C23: when the dict-shaped startup_profile cannot be parsed into a
\* StartupProfile, find_relevant_resources returns exactly the generic list
\* (iHub with match_score 0.8, Nairobi Angel Network with 0.7), runs no
\* matching and raises nothing.
C23_GenericFallback ==
    \A k \in CallsOf("find_relevant_resources") :
        LET d == calls[k].input.data IN
        ( /\ calls[k].input.is_dict
          /\ \/ d.industry \notin Industry
             \/ d.stage \notin StartupStage
             \/ d.location \notin Location
             \/ d.team_size < 1 )
        => /\ ~calls[k].outcome.raised
           /\ calls[k].outcome.matching = {}
           /\ Len(calls[k].outcome.value) = 2
           /\ calls[k].outcome.value[1].name = "iHub"
           /\ calls[k].outcome.value[1].match_score = 80000
           /\ calls[k].outcome.value[2].name = "Nairobi Angel Network"
           /\ calls[k].outcome.value[2].match_score = 70000

\* C23 witness: a dict whose only defect is a stage outside the enumeration
\* got the generic list
C23_Witness ==
    \E k \in CallsOf("find_relevant_resources") :
        /\ calls[k].input.is_dict
        /\ calls[k].input.data.stage = "unicorn"
        /\ calls[k].input.data.industry = "fintech"
        /\ calls[k].input.data.team_size = 3
        /\ calls[k].outcome.value = get_generic_resources

\* the set(key, ...) calls made before call k, and the latest of them
SetsBefore(k, key) ==
    { j \in 1..(k - 1) : calls[j].op = "cache_set" /\ calls[j].key = key }

LastSet(k, key) == CHOOSE j \in SetsBefore(k, key) : \A i \in SetsBefore(k, key) : i <= j

\* the seconds a value set by call j lives: its ttl argument, or the
\* cache's default_ttl when the argument is left out
Lifetime(j) == IF calls[j].ttl = None THEN cache.default_ttl ELSE calls[j].ttl[1]

\* C25: a value stored with set(key, value, ttl) lives for ttl seconds:
\* get(key) returns it while fewer than ttl seconds have elapsed since the
\* set, and returns None and removes the entry once more than ttl seconds
\* have elapsed, whatever the ttl passed.
C25_TtlHonoured ==
    \A k \in CallsOf("cache_get") :
        SetsBefore(k, calls[k].key) # {} =>
            LET j == LastSet(k, calls[k].key)
                elapsed == calls[k].at - calls[j].at
            IN  /\ elapsed < Lifetime(j) => calls[k].outcome.value = Some(calls[j].value)
                /\ elapsed > Lifetime(j) =>
                     /\ calls[k].outcome.value = None
                     /\ k = Len(calls) => calls[k].key \notin DOMAIN cache.cache

LimiterCalls == CallsOf("validate_query_rate_limit")

\* the limiter let call k through
Allowed(k) == ~calls[k].outcome.raised

\* the client of call j sent nothing between calls j and k
NothingBetween(j, k) ==
    \A i \in LimiterCalls : j < i /\ i < k => calls[i].identifier # calls[j].identifier

\* C26: a client rejected by the query rate limit is told retry_after = 60,
\* and its next request, made 60 seconds after the rejection with nothing
\* sent in between, is allowed.
C26_RetryAfterHonoured ==
    \A j \in LimiterCalls :
        calls[j].outcome.raised =>
            /\ calls[j].outcome.status_code = 429
            /\ calls[j].outcome.retry_after = 60
            /\ \A k \in LimiterCalls :
                 ( /\ j < k
                   /\ calls[k].identifier = calls[j].identifier
                   /\ calls[k].at = calls[j].at + calls[j].outcome.retry_after
                   /\ NothingBetween(j, k) )
                 => Allowed(k)

\* calls of the identifier that were let through with a timestamp in [from, to]
AllowedIn(identifier, from, to) ==
    { k \in LimiterCalls :
        /\ calls[k].identifier = identifier
        /\ Allowed(k)
        /\ from <= calls[k].at /\ calls[k].at <= to }

\* instants at which a window can close: the clock readings, and the
\* instants one window after them
WindowEnds == LimiterClockValues \cup { t + 60 : t \in LimiterClockValues }

\* C27: for every identifier and every instant t, at most limit calls of
\* the identifier returned True with a timestamp in [t - window, t]; and a
\* call that returned False is not in the identifier's request log.
C27_RateLimitBound ==
    /\ \A identifier \in {"10.0.0.1", "10.0.0.2"} :
         \A t \in WindowEnds :
             Cardinality(AllowedIn(identifier, t - 60, t)) <= RATE_LIMIT_PER_MINUTE
    /\ \A identifier \in DOMAIN rate_limiter.requests :
         \A t \in LimiterClockValues :
             Cardinality({ i \in 1..Len(rate_limiter.requests[identifier]) :
                             rate_limiter.requests[identifier][i] = t })
               <= Cardinality(AllowedIn(identifier, t, t))

\* C27 witness: a client used up its limit, was rejected, and was let
\* through again once the block had run out
C27_Witness ==
    \E j, k \in LimiterCalls :
        /\ j < k
        /\ calls[j].identifier = calls[k].identifier
        /\ ~Allowed(j)
        /\ Cardinality(AllowedIn(calls[j].identifier, calls[j].at - 60, calls[j].at))
             = RATE_LIMIT_PER_MINUTE
        /\ Allowed(k)

QueryCalls == CallsOf("process_startup_query")

\* the question as the claim normalizes it: sanitized, lower-cased, trimmed
NormalizedQuestion(k) == strip(lower(sanitize_input(calls[k].question)))

\* calls j and k agree on the normalized question, the industry and the
\* stage (the model name is the same for every call of the one service)
SameKeyFields(j, k) ==
    /\ NormalizedQuestion(j) = NormalizedQuestion(k)
    /\ ProfileField(calls[j].startup_profile, "industry")
         = ProfileField(calls[k].startup_profile, "industry")
    /\ ProfileField(calls[j].startup_profile, "stage")
         = ProfileField(calls[k].startup_profile, "stage")

\* the calls that agree with call k on the key fields, got a response with
\* confidence above 0.7 from the API, and had returned when call k began
WritersBefore(k) ==
    { j \in QueryCalls :
        /\ j <= calls[k].began
        /\ SameKeyFields(j, k)
        /\ calls[j].api_called
        /\ calls[j].outcome.value.confidence > 70000 }

LastWriter(k) == CHOOSE j \in WritersBefore(k) : \A i \in WritersBefore(k) : i <= j

\* C24: the cache is keyed only by the normalized question, the industry,
\* the stage and the model: a process_startup_query call that begins within
\* the TTL after the last call that cached a response for the same key
\* fields returns that response without calling the API, whatever its
\* context and other profile fields; the last write is the one served.
C24_CacheKey ==
    \A k \in QueryCalls :
        ( /\ NormalizedQuestion(k) # << >>
          /\ WritersBefore(k) # {}
          /\ calls[k].at - calls[LastWriter(k)].done_at <= 3600 )
        => /\ ~calls[k].api_called
           /\ calls[k].outcome.value = calls[LastWriter(k)].outcome.value

\* C24 witness: two calls cached different responses under one key, and a
\* third call, with another spelling of the question, another context and
\* another location, was served the later one without an API call
C24_Witness ==
    \E i, j, k \in QueryCalls :
        /\ i < j
        /\ i \in WritersBefore(k)
        /\ j = LastWriter(k)
        /\ calls[i].outcome.value # calls[j].outcome.value
        /\ calls[k].question # calls[j].question
        /\ calls[k].context # calls[j].context
        /\ ProfileField(calls[k].startup_profile, "location")
             # ProfileField(calls[j].startup_profile, "location")
        /\ ~calls[k].api_called
        /\ calls[k].outcome.value = calls[j].outcome.value

\* C28: every entry of the response cache is a response with confidence
\* above 0.7; what is served without an API call is such a response written
\* by an earlier call; and a query for which no such response was written
\* calls the API, so the error fallback (confidence 0.1) is returned to the
\* caller and never served again.
C28_OnlyGoodCached ==
    /\ \A key \in DOMAIN cache.cache :
         /\ cache.cache[key].confidence > 70000
         /\ cache.cache[key].error = ""
    /\ \A k \in QueryCalls :
         /\ ~calls[k].outcome.raised
         /\ ( NormalizedQuestion(k) # << >> /\ WritersBefore(k) = {} )
              => calls[k].api_called
         /\ ( NormalizedQuestion(k) # << >> /\ ~calls[k].api_called )
              => /\ calls[k].outcome.value.confidence > 70000
                 /\ calls[k].outcome.value = calls[LastWriter(k)].outcome.value
         /\ NormalizedQuestion(k) = << >>
              => /\ ~calls[k].api_called
                 /\ calls[k].outcome.value.confidence = 10000

\* C28 witness: the API call of a query failed, the caller got the
\* fallback, and the same query asked again called the API again and got a
\* response of confidence exactly 0.7, which the cache does not hold
C28_Witness ==
    \E k, m \in QueryCalls :
        /\ k <= calls[m].began
        /\ calls[k].api_called
        /\ calls[k].outcome.value.error # ""
        /\ calls[k].outcome.value.confidence = 10000
        /\ calls[m].question = calls[k].question
        /\ calls[m].startup_profile = calls[k].startup_profile
        /\ calls[m].context = calls[k].context
        /\ calls[m].api_called
        /\ calls[m].outcome.value.confidence = 70000
        /\ calls[m].key[1] \notin DOMAIN cache.cache

\* the replies after which the loop goes round again
Retryable(reply) ==
    \/ reply.kind = "response" /\ reply.status_code = 429
    \/ reply.kind \in {"TimeoutException", "HTTPStatusError"}

IsOk(reply) == reply.kind = "response" /\ reply.status_code = 200

\* C29: _call_groq_api makes at most 3 posts; it returns the body of the
\* first 200 reply; every post but the last met a 429, a timeout or an
\* HTTPStatusError and was followed by a wait of 2^attempt seconds; any
\* other reply ends the call at once, a non-200 one by raising; and after
\* three posts without a 200 the call raises.
C29_BoundedRetries ==
    \A k \in CallsOf("_call_groq_api") :
        LET c == calls[k]
            n == Len(c.replies)
        IN  /\ 1 <= n /\ n <= 3
            /\ \A i \in 1..(n - 1) : Retryable(c.replies[i])
            /\ Len(c.waits) >= n - 1
            /\ \A i \in 1..Len(c.waits) :
                 Retryable(c.replies[i]) /\ c.waits[i] = << 1, 2, 4 >>[i]
            /\ IsOk(c.replies[n])
                 => ~c.outcome.raised /\ c.outcome.value = c.replies[n].body
            /\ ~IsOk(c.replies[n]) => c.outcome.raised
            /\ n < 3 => ~Retryable(c.replies[n])

\* C29 witness: two retries, after waits of 1 and 2 seconds, and a 200 on
\* the third post
C29_Witness ==
    \E k \in CallsOf("_call_groq_api") :
        /\ Len(calls[k].replies) = 3
        /\ calls[k].replies[1].kind = "response"
        /\ calls[k].replies[2].kind = "TimeoutException"
        /\ IsOk(calls[k].replies[3])
        /\ calls[k].waits = << 1, 2 >>
        /\ ~calls[k].outcome.raised
        /\ clock = calls[k].at + 3

\* C30: when the investor's focus_stages is empty, the scorer does not
\* raise and stage_fit is 0.2, whatever the profile's stage.
C30_EmptyFocusStages ==
    \A k \in CallsOf("calculate_investor_match_score") :
        investors[calls[k].entity].focus_stages = {}
        => /\ ~calls[k].outcome.raised
           /\ calls[k].outcome.value.stage_fit = 20000

====
